---- MODULE Spec2Model ----
(***************************************************************************)
(* Model of the scheduling core of rp4/schedule:                           *)
(*   - the batch Metrics Calculator        (src/lib/metrics.ts)            *)
(*   - the Incremental Metrics Cache       (src/lib/metrics/               *)
(*                                          incrementalMetrics.ts)         *)
(*   - the Placeholder Optimizer           (src/unnamed/part_003)          *)
(*                                                                         *)
(* Numbers.  Hours and maxHours are JavaScript numbers and may be          *)
(* fractional (the Excel parser stores Number(cell)).  The model keeps     *)
(* them as integer counts of 1/HoursScale hour, and keeps every quotient   *)
(* as an exact fraction <<n, d>> in lowest terms, so that Math.round,      *)
(* Math.min and the averages are computed, not assumed.  IEEE rounding     *)
(* error of the floating-point operations is not modelled.                 *)
(*                                                                         *)
(* Strings.  Identifiers, week labels and dates are strings; the empty     *)
(* string stands for a missing (falsy) value.                              *)
(***************************************************************************)
EXTENDS Integers, Sequences, FiniteSets, TLC

VARIABLES
    \* IncrementalMetricsCalculator (incrementalMetrics.ts:22-41)
    employees,              \* Map<string, Employee>
    projects,               \* Map<string, Project>
    assignments,            \* Map<string, Assignment>
    assignmentsByEmployee,  \* Map<string, Set<string>>
    assignmentsByProject,   \* Map<string, Set<string>>
    cache,                  \* MetricsCache
    dirtyTracking,          \* DirtyTracking
    \* observation of the calls made on the calculator
    initialized,            \* initialize() has been called
    returned,               \* value returned by getMetrics() when it was the last call
    reads,                  \* getMetrics() calls since the last other call (up to 2)
    calls                   \* number of calls made on the calculator

calcVars == <<employees, projects, assignments, assignmentsByEmployee,
              assignmentsByProject, cache, dirtyTracking,
              initialized, returned, reads, calls>>

VARIABLES
    \* a call of one of the stateless functions of metrics.ts
    data,                   \* its arguments: employees, projects, assignments, dateRange
    out                     \* the function called last and the value it returned

batchVars == <<data, out>>

VARIABLES
    \* one run of optimizeSchedule(data, algorithm, weights, onProgress, dateRange)
    weights,                \* OptimizationWeights
    opt,                    \* the locals of the run and the values handed to onProgress
    result                  \* the OptimizationResult the run resolved with

optVars == <<weights, opt, result>>

vars == <<calcVars, batchVars, optVars>>

-----------------------------------------------------------------------------
(* Bounds of the model *)

\* resolution of hours: one unit of the model is 1/HoursScale hour
HoursScale == 2
\* largest hours value of one assignment, in units
MaxAssignHours == 3
\* number of calls made on the calculator in one behaviour
MaxCalls == 3
\* longest assignment list handed to the stateless functions
MaxBatchAssignments == 2
\* longest assignment list handed to the optimizer
MaxOptAssignments == 2

-----------------------------------------------------------------------------
(* Generic helpers: maps, sums, exact fractions *)

\* "no value returned": a record no getMetrics() can return
NoValue == [overtimeHours |-> -1, resourceUtilization |-> -1, skillsMatching |-> -1]

EmptyMap == <<>>

Has(m, k) == k \in DOMAIN m

Put(m, k, v) == [x \in (DOMAIN m) \cup {k} |-> IF x = k THEN v ELSE m[x]]

Delete(m, k) == [x \in (DOMAIN m) \ {k} |-> m[x]]

Max(a, b) == IF a >= b THEN a ELSE b

Min(a, b) == IF a <= b THEN a ELSE b

RECURSIVE SumOver(_, _)
\* sum of the integer-valued function f over the finite set S \subseteq DOMAIN f
SumOver(S, f) ==
    IF S = {} THEN 0
    ELSE LET x == CHOOSE y \in S : TRUE IN f[x] + SumOver(S \ {x}, f)

RECURSIVE Gcd(_, _)
Gcd(a, b) == IF b = 0 THEN a ELSE Gcd(b, a % b)

\* the fraction n/d (d > 0) in lowest terms
Frac(n, d) == LET g == Gcd(n, d) IN <<n \div g, d \div g>>

FracInt(n) == <<n, 1>>

FracAdd(x, y) == Frac(x[1] * y[2] + y[1] * x[2], x[2] * y[2])

FracDivInt(x, k) == Frac(x[1], x[2] * k)

FracMulInt(x, k) == Frac(x[1] * k, x[2])

FracSub(x, y) == Frac(x[1] * y[2] - y[1] * x[2], x[2] * y[2])

FracLeq(x, y) == x[1] * y[2] <= y[1] * x[2]

FracLt(x, y) == x[1] * y[2] < y[1] * x[2]

FracMin(x, y) == IF FracLeq(x, y) THEN x ELSE y

RECURSIVE FracSumOver(_, _)
FracSumOver(S, f) ==
    IF S = {} THEN FracInt(0)
    ELSE LET x == CHOOSE y \in S : TRUE IN FracAdd(f[x], FracSumOver(S \ {x}, f))

\* Math.round of the non-negative fraction x: floor(x + 1/2)
MathRound(x) == (2 * x[1] + x[2]) \div (2 * x[2])

\* a quantity of hours held in units, as a number of hours
HoursFrac(units) == Frac(units, HoursScale)

\* a || b on strings: the first operand unless it is falsy (empty)
OrElse(a, b) == IF a # "" THEN a ELSE b

-----------------------------------------------------------------------------
(* Data of the model *)

Skills == {"s1", "s2"}

Employee(id, maxHours, skills) == [id |-> id, maxHours |-> maxHours, skills |-> skills]

Project(id, requiredSkills) == [id |-> id, requiredSkills |-> requiredSkills]

Assignment(id, employeeId, projectId, hours, week, date) ==
    [id |-> id, employeeId |-> employeeId, projectId |-> projectId,
     hours |-> hours, week |-> week, date |-> date]

\* dateRange?: DateRange | null.  A range is <<start, end>>, both in days;
\* NoRange is the absent (null or undefined) range
NoRange == <<>>

DateRange(start, end) == <<start, end>>

E1 == Employee("e1", 1, ("s1" :> "Expert") @@ ("s2" :> "Beginner"))
E2 == Employee("e2", 4, ("s1" :> "Intermediate"))

P1 == Project("p1", <<"s1", "s2">>)
P2 == Project("p2", <<>>)
P3 == Project("p3", <<"s2">>)
\* identifiers are free text (the parser keeps the ID column of the sheet):
\* an employee and a project whose ids hold a hyphen
E3 == Employee("e1-x", 4, ("s1" :> "Beginner"))
P4 == Project("x-p1", <<"s1">>)

AssignmentIds == {"a1", "a2"}
EmployeeRefs == {"e1", "e2", ""}
ProjectRefs == {"p1", "p2"}
HourValues == {1, MaxAssignHours}
\* (week label, date) of an assignment: a legacy label without date, and
\* labels and dates that do not determine each other
Periods == { <<"w1", "">>, <<"w1", "d1">>, <<"w2", "d1">> }

\* the periods of the assignments handed to addAssignment(): a week label alone,
\* and another week label with a date
CalcPeriods == { <<"w1", "">>, <<"w2", "d1">> }
Assignments(ids) ==
    { Assignment(i, e, p, h, wd[1], wd[2]) :
        i \in ids, e \in EmployeeRefs, p \in ProjectRefs, h \in HourValues, wd \in CalcPeriods }

\* datasets handed to initialize()
CalcEmployeeLists == { <<E1>>, <<E1, E2>> }
CalcProjectLists == { <<P1>>, <<P1, P2>> }
CalcAssignmentLists ==
    { <<>>, <<Assignment("a1", "e1", "p1", MaxAssignHours, "w1", "d1")>> }

\* datasets handed to the stateless functions of metrics.ts
BatchEmployeeLists == { <<>>, <<E1>>, <<E1, E2>> }
BatchProjectLists == { <<P1>>, <<P1, P2>>, <<P2, P3>> }
\* an employee, an employee that may be missing, the placeholder sentinel
BatchEmployeeRefs == {"e1", "e2", "Placeholder"}
BatchPeriods == { <<"w1", "">>, <<"w1", "d1">> }
BatchShapes ==
    { Assignment("", e, p, h, wd[1], wd[2]) :
        e \in BatchEmployeeRefs, p \in ProjectRefs, h \in HourValues, wd \in BatchPeriods }
\* the lists of at most MaxBatchAssignments assignments, with ids a1, a2, ...
BatchAssignmentLists ==
    UNION { { [i \in 1..n |-> [f[i] EXCEPT !.id = "a" \o ToString(i)]] :
                f \in [1..n -> BatchShapes] } : n \in 0..MaxBatchAssignments }
\* no range, a range of two weeks, a range that ends before it starts
BatchDateRanges == { NoRange, DateRange(0, 13), DateRange(7, 0) }
\* the lists of at most MaxBatchAssignments assignments between the employees
\* and projects with a hyphen in their id and those without
HyphenShapes ==
    { Assignment("", e, p, 1, "w1", "") : e \in {"e1", "e1-x"}, p \in {"p1", "x-p1"} }
HyphenAssignmentLists ==
    UNION { { [i \in 1..n |-> [f[i] EXCEPT !.id = "a" \o ToString(i)]] :
                f \in [1..n -> HyphenShapes] } : n \in 0..MaxBatchAssignments }
BatchData ==
    [employees : BatchEmployeeLists, projects : BatchProjectLists,
     assignments : BatchAssignmentLists, dateRange : BatchDateRanges]
    \cup [employees : {<<E1, E3>>}, projects : {<<P1, P4>>},
          assignments : HyphenAssignmentLists, dateRange : {NoRange}]
\* datasets handed both to initialize() and to calculateMetrics(): assignments
\* of the two employees with a week label, a date, or both
SnapshotShapes ==
    { Assignment("", e, p, h, wd[1], wd[2]) :
        e \in {"e1", "e2"}, p \in ProjectRefs, h \in HourValues, wd \in Periods }
SnapshotAssignmentLists ==
    UNION { { [i \in 1..n |-> [f[i] EXCEPT !.id = "a" \o ToString(i)]] :
                f \in [1..n -> SnapshotShapes] } : n \in 0..MaxBatchAssignments }
SnapshotData ==
    [employees : { <<E1>>, <<E1, E2>> }, projects : { <<P1, P2>> },
     assignments : SnapshotAssignmentLists, dateRange : { NoRange }]
    \cup [employees : { <<>>, <<E2>> }, projects : { <<>>, <<P1>> },
          assignments : { <<>>, <<Assignment("a1", "e2", "p1", 1, "w1", "d1")>> },
          dateRange : { NoRange }]
\* no dataset
NoData == [employees |-> <<>>, projects |-> <<>>, assignments |-> <<>>, dateRange |-> NoRange]

\* datasets handed to optimizeSchedule: lists of real assignments and of
\* placeholders without an employee, and lists of one assignment whose
\* employee reference resembles the sentinel
OptEmployeeLists == { <<>>, <<E1>>, <<E1, E2>> }
OptProjectLists == { <<P1>>, <<P1, P2>> }
OptShapes ==
    { Assignment("", e, p, h, wd[1], wd[2]) :
        e \in {"e1", ""}, p \in ProjectRefs, h \in HourValues, wd \in Periods }
SentinelShapes ==
    { Assignment("a1", e, "p1", 1, "w1", "d1") :
        e \in {"Placeholder", "placeholder", "Placeholder 1"} }
OptAssignmentLists ==
    UNION { { [i \in 1..n |-> [f[i] EXCEPT !.id = "a" \o ToString(i)]] :
                f \in [1..n -> OptShapes] } : n \in 0..MaxOptAssignments }
    \cup { <<a>> : a \in SentinelShapes }
OptDateRanges == { NoRange, DateRange(0, 13) }
\* employee records whose id resembles the sentinel (the parser keeps any
\* non-empty ID cell), next to placeholders of one project
EP1 == Employee("Placeholder 1", 4, ("s1" :> "Expert"))
EP2 == Employee("placeholder-2", 4, ("s1" :> "Expert"))
SentinelEmployeeLists == { <<EP1>>, <<E1, EP1>>, <<EP2, E2>> }
SentinelEmployeeAssignmentLists ==
    { <<Assignment("a1", "", "p1", 1, "w1", "d1")>>,
      <<Assignment("a1", "", "p1", 1, "w1", "d1"), Assignment("a2", "", "p1", 1, "w1", "d1")>> }
SentinelEmployeeData ==
    [employees : SentinelEmployeeLists, projects : { <<P1>> },
     assignments : SentinelEmployeeAssignmentLists, dateRange : { NoRange }]
\* placeholders that carry a date and no week label
DatedPlaceholderLists ==
    { <<Assignment("a1", "", "p1", 1, "", "d1")>>,
      <<Assignment("a1", "", "p1", 1, "", "d1"), Assignment("a2", "", "p1", 1, "", "d1")>>,
      <<Assignment("a1", "e1", "p1", 1, "", "d1"), Assignment("a2", "", "p1", 1, "", "d1")>> }
DatedPlaceholderData ==
    [employees : { <<E1>>, <<E1, E2>> }, projects : { <<P1>> },
     assignments : DatedPlaceholderLists, dateRange : OptDateRanges]
\* references that begin with the sentinel prefix and a space, followed by text
\* that is not a number; one of them is also the id of an employee record
EPX == Employee("Placeholder x", 1, ("s1" :> "Expert"))
NamedPlaceholderLists ==
    { <<Assignment("a1", "Placeholder x", "p1", MaxAssignHours, "w1", "d1")>>,
      <<Assignment("a1", "Placeholder x", "p1", MaxAssignHours, "w1", "d1"),
        Assignment("a2", "", "p1", 1, "w1", "d1")>>,
      <<Assignment("a1", "e1", "p1", MaxAssignHours, "w1", "d1"),
        Assignment("a2", "Placeholder 12", "p1", 1, "w1", "d1")>> }
NamedPlaceholderData ==
    [employees : { <<E1>>, <<EPX, E1>> }, projects : { <<P1>> },
     assignments : NamedPlaceholderLists, dateRange : { NoRange }]
OptData ==
    [employees : OptEmployeeLists, projects : OptProjectLists,
     assignments : OptAssignmentLists, dateRange : OptDateRanges]
    \cup SentinelEmployeeData
    \cup DatedPlaceholderData \cup NamedPlaceholderData
\* the strategy labels optimizeSchedule accepts
Algorithms == {"genetic", "annealing", "constraint"}
\* datasets of the runs that vary the strategy label, with the calculator
\* initialized from the same dataset: real assignments of e1 and placeholders
SelectorShapes ==
    { Assignment("", e, p, h, "w1", "d1") :
        e \in {"e1", ""}, p \in ProjectRefs, h \in HourValues }
SelectorAssignmentLists ==
    UNION { { [i \in 1..n |-> [f[i] EXCEPT !.id = "a" \o ToString(i)]] :
                f \in [1..n -> SelectorShapes] } : n \in 0..MaxOptAssignments }
SelectorData ==
    [employees : { <<E1>>, <<E1, E2>> }, projects : { <<P1>> },
     assignments : SelectorAssignmentLists, dateRange : { NoRange }]
\* weight triples: equal weights, and no weight at all (every score ties)
WeightTriples ==
    { [overtime |-> 1, utilization |-> 1, skills |-> 1],
      [overtime |-> 0, utilization |-> 0, skills |-> 0] }

\* Partial<Assignment> handed to updateAssignment(): the fields present
Updates ==
    { ("employeeId" :> e) : e \in EmployeeRefs }
    \cup { ("projectId" :> p) : p \in ProjectRefs }
    \cup { ("hours" :> h) : h \in HourValues }
    \cup { ("week" :> "w2") }
    \cup { ("hours" :> h) @@ ("date" :> "d1") : h \in HourValues }

-----------------------------------------------------------------------------
(* Incremental Metrics Cache *)

EmptyCache(isDirty) ==
    [overtimeByEmployee |-> EmptyMap, utilizationByEmployee |-> EmptyMap,
     skillsMatchByProject |-> EmptyMap, isDirty |-> isDirty]

EmptyDirtyTracking == [dirtyEmployees |-> {}, dirtyProjects |-> {}, dirtyWeeks |-> {}]

\* the assignments of an index slice that are still stored
StoredOf(asgs, index, key) ==
    { asgs[i] : i \in { j \in (IF Has(index, key) THEN index[key] ELSE {}) : Has(asgs, j) } }

\* assignment.week || assignment.date || ''
WeekOf(a) == OrElse(a.week, OrElse(a.date, ""))

\* a calculateEmployeeOvertime that stores an entry for every week worked
calculateEmployeeOvertimeEveryWeek(c, emps, asgs, byEmp, employeeId) ==
    IF ~Has(emps, employeeId) THEN c
    ELSE LET mine == StoredOf(asgs, byEmp, employeeId)
             weeks == { WeekOf(a) : a \in mine }
             idsOf(w) == { a.id : a \in { b \in mine : WeekOf(b) = w } }
             weeklyHours == [w \in weeks |-> SumOver(idsOf(w), [i \in idsOf(w) |-> asgs[i].hours])]
             overtime(w) == Max(0, weeklyHours[w] - emps[employeeId].maxHours)
             overtimeByWeek == [w \in weeks |-> overtime(w)]
         IN [c EXCEPT !.overtimeByEmployee = Put(@, employeeId, overtimeByWeek)]

calculateEmployeeOvertime(c, emps, asgs, byEmp, employeeId) ==
    IF ~Has(emps, employeeId) THEN c
    ELSE LET mine == StoredOf(asgs, byEmp, employeeId)
             weeks == { WeekOf(a) : a \in mine }
             idsOf(w) == { a.id : a \in { b \in mine : WeekOf(b) = w } }
             weeklyHours == [w \in weeks |-> SumOver(idsOf(w), [i \in idsOf(w) |-> asgs[i].hours])]
             overtime(w) == Max(0, weeklyHours[w] - emps[employeeId].maxHours)
             overtimeByWeek == [w \in { v \in weeks : overtime(v) > 0 } |-> overtime(w)]
         IN [c EXCEPT !.overtimeByEmployee = Put(@, employeeId, overtimeByWeek)]

calculateEmployeeUtilization(c, emps, asgs, byEmp, employeeId) ==
    IF ~Has(emps, employeeId) THEN c
    ELSE LET mine == StoredOf(asgs, byEmp, employeeId)
             ids == { a.id : a \in mine }
             totalHours == SumOver(ids, [i \in ids |-> asgs[i].hours])
             weeksWorked == { WeekOf(a) : a \in mine }
             maxCapacity == emps[employeeId].maxHours * Max(1, Cardinality(weeksWorked))
             utilization == IF maxCapacity > 0 THEN Frac(totalHours * 100, maxCapacity)
                            ELSE FracInt(0)
         IN [c EXCEPT !.utilizationByEmployee =
                        Put(@, employeeId, FracMin(FracInt(100), utilization))]

\* proficiency weight of the incremental cache, in tenths (1.0 / 0.7 / 0.4)
IncrementalWeight10(proficiency) ==
    IF proficiency = "Expert" THEN 10
    ELSE IF proficiency = "Intermediate" THEN 7 ELSE 4

\* IncrementalMetricsCalculator.calculateSkillsMatch(employee, project), a fraction
employeeProjectMatch(employee, project) ==
    IF Len(project.requiredSkills) = 0 THEN FracInt(1)
    ELSE IF DOMAIN employee.skills = {} THEN FracInt(0)
    ELSE LET n == Len(project.requiredSkills)
             w(i) == IF project.requiredSkills[i] \in DOMAIN employee.skills
                     THEN IncrementalWeight10(employee.skills[project.requiredSkills[i]])
                     ELSE 0
             weightedScore == SumOver(1..n, [i \in 1..n |-> w(i)])
         IN Frac(weightedScore, 10 * n)

calculateProjectSkillsMatch(c, emps, projs, asgs, byProj, projectId) ==
    IF ~Has(projs, projectId) \/ Len(projs[projectId].requiredSkills) = 0
    THEN [c EXCEPT !.skillsMatchByProject = Put(@, projectId, FracInt(100))]
    ELSE LET employeesOnProject == { a.employeeId : a \in StoredOf(asgs, byProj, projectId) }
             known == { e \in employeesOnProject : Has(emps, e) }
             totalMatch == FracSumOver(known,
                               [e \in known |-> employeeProjectMatch(emps[e], projs[projectId])])
             averageMatch == Frac(totalMatch[1] * 100,
                                  totalMatch[2] * Cardinality(employeesOnProject))
         IN IF employeesOnProject = {}
            THEN [c EXCEPT !.skillsMatchByProject = Put(@, projectId, FracInt(0))]
            ELSE [c EXCEPT !.skillsMatchByProject = Put(@, projectId, averageMatch)]

RECURSIVE forEachEmployee(_, _, _, _, _)
\* ids.forEach(id => { calculateEmployeeOvertime(id); calculateEmployeeUtilization(id) })
forEachEmployee(ids, c, emps, asgs, byEmp) ==
    IF ids = {} THEN c
    ELSE LET id == CHOOSE x \in ids : TRUE
             c1 == calculateEmployeeOvertime(c, emps, asgs, byEmp, id)
             c2 == calculateEmployeeUtilization(c1, emps, asgs, byEmp, id)
         IN forEachEmployee(ids \ {id}, c2, emps, asgs, byEmp)

RECURSIVE forEachProject(_, _, _, _, _, _)
\* ids.forEach(id => calculateProjectSkillsMatch(id))
forEachProject(ids, c, emps, projs, asgs, byProj) ==
    IF ids = {} THEN c
    ELSE LET id == CHOOSE x \in ids : TRUE
         IN forEachProject(ids \ {id},
                calculateProjectSkillsMatch(c, emps, projs, asgs, byProj, id),
                emps, projs, asgs, byProj)

calculateAll(c, emps, projs, asgs, byEmp, byProj) ==
    LET c1 == forEachEmployee(DOMAIN emps, c, emps, asgs, byEmp)
        c2 == forEachProject(DOMAIN projs, c1, emps, projs, asgs, byProj)
    IN [c2 EXCEPT !.isDirty = FALSE]

\* a recalculateDirty that leaves out the dirty projects
recalculateDirtyEmployeesOnly(c, dt, emps, projs, asgs, byEmp, byProj) ==
    LET c1 == forEachEmployee(dt.dirtyEmployees, c, emps, asgs, byEmp)
    IN [c1 EXCEPT !.isDirty = FALSE]

recalculateDirty(c, dt, emps, projs, asgs, byEmp, byProj) ==
    LET c1 == forEachEmployee(dt.dirtyEmployees, c, emps, asgs, byEmp)
        c2 == forEachProject(dt.dirtyProjects, c1, emps, projs, asgs, byProj)
    IN [c2 EXCEPT !.isDirty = FALSE]

aggregateMetrics(c) ==
    LET ot == c.overtimeByEmployee
        cells == { <<e, w>> : e \in DOMAIN ot, w \in UNION { DOMAIN ot[x] : x \in DOMAIN ot } }
        filled == { ew \in cells : ew[2] \in DOMAIN ot[ew[1]] }
        totalOvertime == SumOver(filled, [ew \in filled |-> ot[ew[1]][ew[2]]])
        ut == c.utilizationByEmployee
        employeeCount == Cardinality(DOMAIN ut)
        totalUtilization == FracSumOver(DOMAIN ut, ut)
        sm == c.skillsMatchByProject
        projectCount == Cardinality(DOMAIN sm)
        totalSkillsMatch == FracSumOver(DOMAIN sm, sm)
    IN [overtimeHours |-> MathRound(HoursFrac(totalOvertime)),
        resourceUtilization |->
            IF employeeCount > 0 THEN MathRound(FracDivInt(totalUtilization, employeeCount)) ELSE 0,
        skillsMatching |->
            IF projectCount > 0 THEN MathRound(FracDivInt(totalSkillsMatch, projectCount)) ELSE 0]

\* getMetrics() when the returned value is aggregated before the dirty
\* entries are recomputed
getMetricsAggregateFirst(c, dt, emps, projs, asgs, byEmp, byProj) ==
    [cache |-> IF c.isDirty THEN recalculateDirty(c, dt, emps, projs, asgs, byEmp, byProj) ELSE c,
     dirtyTracking |-> IF c.isDirty THEN EmptyDirtyTracking ELSE dt,
     result |-> aggregateMetrics(c)]

\* getMetrics(): the cache and dirty tracking it leaves, and the value it returns
getMetrics(c, dt, emps, projs, asgs, byEmp, byProj) ==
    LET c1 == IF c.isDirty THEN recalculateDirty(c, dt, emps, projs, asgs, byEmp, byProj) ELSE c
    IN [cache |-> c1,
        dirtyTracking |-> IF c.isDirty THEN EmptyDirtyTracking ELSE dt,
        result |-> aggregateMetrics(c1)]

\* the last element of list xs whose id is id (Map.set keeps the last)
LastWithId(xs, id) ==
    xs[CHOOSE i \in DOMAIN xs : xs[i].id = id /\ \A j \in DOMAIN xs : xs[j].id = id => j <= i]

MapById(xs) == [id \in { xs[i].id : i \in DOMAIN xs } |-> LastWithId(xs, id)]

\* the reverse index built by initialize(): every list element's id filed under its key
IndexOf(xs, field) ==
    [k \in { xs[i][field] : i \in DOMAIN xs } |->
        { xs[i].id : i \in { j \in DOMAIN xs : xs[j][field] = k } }]

\* initialize() that fills the maps without clearing them first
initializeWithoutClear(es, ps, as) ==
    LET emps == MapById(es) @@ employees
        projs == MapById(ps) @@ projects
        asgs == MapById(as) @@ assignments
        byEmp == IndexOf(as, "employeeId") @@ assignmentsByEmployee
        byProj == IndexOf(as, "projectId") @@ assignmentsByProject
    IN [employees |-> emps, projects |-> projs, assignments |-> asgs,
        assignmentsByEmployee |-> byEmp, assignmentsByProject |-> byProj,
        cache |-> calculateAll(EmptyCache(FALSE), emps, projs, asgs, byEmp, byProj),
        dirtyTracking |-> EmptyDirtyTracking]

\* initialize(employees, projects, assignments): the calculator state it leaves
initialize(es, ps, as) ==
    LET emps == MapById(es)
        projs == MapById(ps)
        asgs == MapById(as)
        byEmp == IndexOf(as, "employeeId")
        byProj == IndexOf(as, "projectId")
    IN [employees |-> emps, projects |-> projs, assignments |-> asgs,
        assignmentsByEmployee |-> byEmp, assignmentsByProject |-> byProj,
        cache |-> calculateAll(EmptyCache(FALSE), emps, projs, asgs, byEmp, byProj),
        dirtyTracking |-> EmptyDirtyTracking]

AddToIndex(index, key, id) == Put(index, key, (IF Has(index, key) THEN index[key] ELSE {}) \cup {id})

\* index.get(key)?.delete(id)
DeleteFromIndex(index, key, id) ==
    IF Has(index, key) THEN [index EXCEPT ![key] = @ \ {id}] ELSE index

\* { ...existing, ...updates }
Spread(existing, updates) ==
    [f \in DOMAIN existing |-> IF f \in DOMAIN updates THEN updates[f] ELSE existing[f]]

\* updates.field && updates.field !== existing.field
Changes(existing, updates, field) ==
    /\ field \in DOMAIN updates
    /\ updates[field] # ""
    /\ updates[field] # existing[field]

-----------------------------------------------------------------------------
(* Operations of the calculator *)

Initialize(es, ps, as) ==
    LET s == initialize(es, ps, as) IN
    /\ employees' = s.employees
    /\ projects' = s.projects
    /\ assignments' = s.assignments
    /\ assignmentsByEmployee' = s.assignmentsByEmployee
    /\ assignmentsByProject' = s.assignmentsByProject
    /\ cache' = s.cache
    /\ dirtyTracking' = s.dirtyTracking
    /\ initialized' = TRUE
    /\ returned' = NoValue
    /\ reads' = 0

UpdateAssignment(assignmentId, updates) ==
    /\ returned' = NoValue
    /\ reads' = 0
    /\ UNCHANGED <<employees, projects, initialized>>
    /\ IF ~Has(assignments, assignmentId)
       THEN UNCHANGED <<assignments, assignmentsByEmployee, assignmentsByProject,
                        cache, dirtyTracking>>
       ELSE LET existing == assignments[assignmentId]
                newEmployee == Changes(existing, updates, "employeeId")
                newProject == Changes(existing, updates, "projectId")
            IN /\ dirtyTracking' =
                    [dirtyEmployees |-> dirtyTracking.dirtyEmployees \cup {existing.employeeId}
                        \cup (IF newEmployee THEN {updates.employeeId} ELSE {}),
                     dirtyProjects |-> dirtyTracking.dirtyProjects \cup {existing.projectId}
                        \cup (IF newProject THEN {updates.projectId} ELSE {}),
                     dirtyWeeks |-> dirtyTracking.dirtyWeeks
                        \cup {OrElse(existing.week, OrElse(existing.date, ""))}
                        \cup (IF "week" \in DOMAIN updates /\ updates.week # ""
                              THEN {updates.week} ELSE {})]
               /\ assignments' = Put(assignments, assignmentId, Spread(existing, updates))
               /\ assignmentsByEmployee' =
                    IF newEmployee
                    THEN AddToIndex(DeleteFromIndex(assignmentsByEmployee,
                                        existing.employeeId, assignmentId),
                                    updates.employeeId, assignmentId)
                    ELSE assignmentsByEmployee
               /\ assignmentsByProject' =
                    IF newProject
                    THEN AddToIndex(DeleteFromIndex(assignmentsByProject,
                                        existing.projectId, assignmentId),
                                    updates.projectId, assignmentId)
                    ELSE assignmentsByProject
               /\ cache' = [cache EXCEPT !.isDirty = TRUE]

\* addAssignment that recomputes the overtime of the employee at once
AddAssignmentEager(assignment) ==
    LET asgs == Put(assignments, assignment.id, assignment)
        byEmp == AddToIndex(assignmentsByEmployee, assignment.employeeId, assignment.id)
    IN /\ assignments' = asgs
       /\ assignmentsByEmployee' = byEmp
       /\ assignmentsByProject' =
            AddToIndex(assignmentsByProject, assignment.projectId, assignment.id)
       /\ dirtyTracking' =
            [dirtyEmployees |-> dirtyTracking.dirtyEmployees \cup {assignment.employeeId},
             dirtyProjects |-> dirtyTracking.dirtyProjects \cup {assignment.projectId},
             dirtyWeeks |-> dirtyTracking.dirtyWeeks \cup {WeekOf(assignment)}]
       /\ cache' = [calculateEmployeeOvertime(cache, employees, asgs, byEmp,
                                              assignment.employeeId)
                        EXCEPT !.isDirty = TRUE]
       /\ returned' = NoValue
       /\ reads' = 0
       /\ UNCHANGED <<employees, projects, initialized>>

AddAssignment(assignment) ==
    /\ assignments' = Put(assignments, assignment.id, assignment)
    /\ assignmentsByEmployee' =
            AddToIndex(assignmentsByEmployee, assignment.employeeId, assignment.id)
    /\ assignmentsByProject' =
            AddToIndex(assignmentsByProject, assignment.projectId, assignment.id)
    /\ dirtyTracking' =
            [dirtyEmployees |-> dirtyTracking.dirtyEmployees \cup {assignment.employeeId},
             dirtyProjects |-> dirtyTracking.dirtyProjects \cup {assignment.projectId},
             dirtyWeeks |-> dirtyTracking.dirtyWeeks \cup {WeekOf(assignment)}]
    /\ cache' = [cache EXCEPT !.isDirty = TRUE]
    /\ returned' = NoValue
    /\ reads' = 0
    /\ UNCHANGED <<employees, projects, initialized>>

\* a removeAssignment that marks the cache dirty before it looks the id up
RemoveAssignmentMarkingFirst(assignmentId) ==
    /\ returned' = NoValue
    /\ reads' = 0
    /\ UNCHANGED <<employees, projects, initialized>>
    /\ cache' = [cache EXCEPT !.isDirty = TRUE]
    /\ IF ~Has(assignments, assignmentId)
       THEN UNCHANGED <<assignments, assignmentsByEmployee, assignmentsByProject,
                        dirtyTracking>>
       ELSE LET assignment == assignments[assignmentId]
            IN /\ dirtyTracking' =
                    [dirtyEmployees |-> dirtyTracking.dirtyEmployees \cup {assignment.employeeId},
                     dirtyProjects |-> dirtyTracking.dirtyProjects \cup {assignment.projectId},
                     dirtyWeeks |-> dirtyTracking.dirtyWeeks \cup {WeekOf(assignment)}]
               /\ assignmentsByEmployee' =
                    DeleteFromIndex(assignmentsByEmployee, assignment.employeeId, assignmentId)
               /\ assignmentsByProject' =
                    DeleteFromIndex(assignmentsByProject, assignment.projectId, assignmentId)
               /\ assignments' = Delete(assignments, assignmentId)

RemoveAssignment(assignmentId) ==
    /\ returned' = NoValue
    /\ reads' = 0
    /\ UNCHANGED <<employees, projects, initialized>>
    /\ IF ~Has(assignments, assignmentId)
       THEN UNCHANGED <<assignments, assignmentsByEmployee, assignmentsByProject,
                        cache, dirtyTracking>>
       ELSE LET assignment == assignments[assignmentId]
            IN /\ dirtyTracking' =
                    [dirtyEmployees |-> dirtyTracking.dirtyEmployees \cup {assignment.employeeId},
                     dirtyProjects |-> dirtyTracking.dirtyProjects \cup {assignment.projectId},
                     dirtyWeeks |-> dirtyTracking.dirtyWeeks \cup {WeekOf(assignment)}]
               /\ assignmentsByEmployee' =
                    DeleteFromIndex(assignmentsByEmployee, assignment.employeeId, assignmentId)
               /\ assignmentsByProject' =
                    DeleteFromIndex(assignmentsByProject, assignment.projectId, assignmentId)
               /\ assignments' = Delete(assignments, assignmentId)
               /\ cache' = [cache EXCEPT !.isDirty = TRUE]

GetMetrics ==
    LET r == getMetrics(cache, dirtyTracking, employees, projects, assignments,
                        assignmentsByEmployee, assignmentsByProject) IN
    /\ cache' = r.cache
    /\ dirtyTracking' = r.dirtyTracking
    /\ returned' = r.result
    /\ reads' = Min(reads + 1, 2)
    /\ UNCHANGED <<employees, projects, assignments, assignmentsByEmployee,
                   assignmentsByProject, initialized>>

-----------------------------------------------------------------------------
(* Metrics Calculator: the stateless functions of metrics.ts *)

PROFICIENCY_SCORES == ("Beginner" :> 1) @@ ("Intermediate" :> 2) @@ ("Expert" :> 3)

\* date-fns differenceInWeeks(end, start): the full weeks between the two
\* dates, truncated toward zero
differenceInWeeks(end, start) ==
    IF end >= start THEN (end - start) \div 7 ELSE -((start - end) \div 7)

\* assignment.date || assignment.week
TimeKey(assignment) == OrElse(assignment.date, assignment.week)

\* numPeriods without the week that holds the end of the range
numPeriodsExclusive(asgs, dateRange) ==
    IF dateRange # NoRange
    THEN Max(1, differenceInWeeks(dateRange[2], dateRange[1]))
    ELSE Max(1, Cardinality({ TimeKey(asgs[i]) : i \in DOMAIN asgs }))

\* numPeriods of calculateResourceUtilization
numPeriods(asgs, dateRange) ==
    IF dateRange # NoRange
    THEN Max(1, differenceInWeeks(dateRange[2], dateRange[1]) + 1)
    ELSE LET timePeriodsSet == { TimeKey(asgs[i]) : i \in DOMAIN asgs }
         IN Max(1, Cardinality(timePeriodsSet))

calculateResourceUtilization(emps, asgs, dateRange) ==
    IF Len(emps) = 0 THEN 0
    ELSE
    LET periods == numPeriods(asgs, dateRange)
        \* employeeAssignedHours.get(id) || 0
        employeeAssignedHours(id) ==
            SumOver({ i \in DOMAIN asgs : asgs[i].employeeId = id },
                    [i \in DOMAIN asgs |-> asgs[i].hours])
        totalMaxCapacity ==
            SumOver(DOMAIN emps, [i \in DOMAIN emps |-> emps[i].maxHours * periods])
        totalAssignedHours ==
            SumOver(DOMAIN emps, [i \in DOMAIN emps |-> employeeAssignedHours(emps[i].id)])
    IN IF totalMaxCapacity > 0
       THEN MathRound(Frac(totalAssignedHours * 100, totalMaxCapacity))
       ELSE 0

\* employeeHoursByPeriod with one period for the whole dataset
employeeHoursCumulative(asgs) ==
    [id \in { asgs[i].employeeId : i \in DOMAIN asgs } |->
        [period \in {"all"} |->
            SumOver({ i \in DOMAIN asgs : asgs[i].employeeId = id },
                    [i \in DOMAIN asgs |-> asgs[i].hours])]]

\* employeeHoursByPeriod of calculateMetrics: employeeId -> period -> hours
employeeHoursByPeriod(asgs) ==
    [id \in { asgs[i].employeeId : i \in DOMAIN asgs } |->
        [period \in { TimeKey(asgs[i]) : i \in { j \in DOMAIN asgs : asgs[j].employeeId = id } } |->
            SumOver({ i \in DOMAIN asgs : asgs[i].employeeId = id /\ TimeKey(asgs[i]) = period },
                    [i \in DOMAIN asgs |-> asgs[i].hours])]]

\* `${assignment.employeeId}-${assignment.projectId}`
pairKey(assignment) == assignment.employeeId \o "-" \o assignment.projectId

\* the points one employee's skills score on a list of required skills
skillPoints(skills, requiredSkills) ==
    SumOver(DOMAIN requiredSkills,
            [i \in DOMAIN requiredSkills |->
                IF requiredSkills[i] \in DOMAIN skills
                THEN PROFICIENCY_SCORES[skills[requiredSkills[i]]]
                ELSE 0])

RECURSIVE skillsMatchLoop(_, _, _, _, _, _)
\* the loop of calculateSkillsMatch from assignment i on
skillsMatchLoop(asgs, employeeMap, projectMap, i, uniquePairs, totalScore) ==
    IF i > Len(asgs) THEN totalScore
    ELSE LET assignment == asgs[i] IN
         IF pairKey(assignment) \in uniquePairs
         THEN skillsMatchLoop(asgs, employeeMap, projectMap, i + 1, uniquePairs, totalScore)
         ELSE IF \/ ~Has(employeeMap, assignment.employeeId)
                 \/ ~Has(projectMap, assignment.projectId)
                 \/ Len(projectMap[assignment.projectId].requiredSkills) = 0
         THEN skillsMatchLoop(asgs, employeeMap, projectMap, i + 1, uniquePairs, totalScore)
         ELSE skillsMatchLoop(asgs, employeeMap, projectMap, i + 1,
                  uniquePairs \cup {pairKey(assignment)},
                  totalScore + skillPoints(employeeMap[assignment.employeeId].skills,
                                           projectMap[assignment.projectId].requiredSkills))

calculateSkillsMatch(asgs, employeeMap, projectMap) ==
    skillsMatchLoop(asgs, employeeMap, projectMap, 1, {}, 0)

calculateMetrics(emps, projs, asgs, dateRange) ==
    LET employeeMap == MapById(emps)
        projectMap == MapById(projs)
        byPeriod == employeeHoursByPeriod(asgs)
        \* the overtime of the i-th employee, in units
        overtimeOf(i) ==
            IF Has(byPeriod, emps[i].id)
            THEN LET periodHours == byPeriod[emps[i].id]
                 IN SumOver(DOMAIN periodHours,
                        [p \in DOMAIN periodHours |->
                            IF periodHours[p] > emps[i].maxHours
                            THEN periodHours[p] - emps[i].maxHours
                            ELSE 0])
            ELSE 0
        overtimeHours == SumOver(DOMAIN emps, [i \in DOMAIN emps |-> overtimeOf(i)])
        skillsMatching == calculateSkillsMatch(asgs, employeeMap, projectMap)
    IN [overtimeHours |-> MathRound(HoursFrac(overtimeHours)),
        resourceUtilization |-> calculateResourceUtilization(emps, asgs, dateRange),
        skillsMatching |-> MathRound(FracInt(skillsMatching))]

getEmployeeProjectSkillScore(employee, project) ==
    IF Len(project.requiredSkills) = 0 THEN 0
    ELSE skillPoints(employee.skills, project.requiredSkills)

RECURSIVE projectScoresLoop(_, _, _, _)
\* the inner loop of createSkillScoreMatrix from project j on
projectScoresLoop(employee, projs, j, projectScores) ==
    IF j > Len(projs) THEN projectScores
    ELSE LET score == getEmployeeProjectSkillScore(employee, projs[j])
         IN projectScoresLoop(employee, projs, j + 1,
                IF score > 0 THEN Put(projectScores, projs[j].id, score) ELSE projectScores)

RECURSIVE matrixLoop(_, _, _, _)
\* the outer loop of createSkillScoreMatrix from employee i on
matrixLoop(emps, projs, i, matrix) ==
    IF i > Len(emps) THEN matrix
    ELSE LET projectScores == projectScoresLoop(emps[i], projs, 1, EmptyMap)
         IN matrixLoop(emps, projs, i + 1,
                IF Cardinality(DOMAIN projectScores) > 0
                THEN Put(matrix, emps[i].id, projectScores)
                ELSE matrix)

\* createSkillScoreMatrix that stores every score, zero or not
createSkillScoreMatrixDense(emps, projs) ==
    [id \in { emps[i].id : i \in DOMAIN emps } |->
        [pid \in { projs[j].id : j \in DOMAIN projs } |->
            getEmployeeProjectSkillScore(LastWithId(emps, id), LastWithId(projs, pid))]]

createSkillScoreMatrix(emps, projs) ==
    matrixLoop(emps, projs, 1, EmptyMap)

\* no function called yet
NoOut == [op |-> "", value |-> <<>>]

\* the caller hands its dataset to one of the functions and keeps the result
CalculateMetrics ==
    /\ out' = [op |-> "calculateMetrics",
               value |-> calculateMetrics(data.employees, data.projects,
                                          data.assignments, data.dateRange)]
    /\ UNCHANGED data

CalculateResourceUtilization ==
    /\ out' = [op |-> "calculateResourceUtilization",
               value |-> calculateResourceUtilization(data.employees, data.assignments,
                                                      data.dateRange)]
    /\ UNCHANGED data

CalculateSkillsMatch ==
    /\ out' = [op |-> "calculateSkillsMatch",
               value |-> calculateSkillsMatch(data.assignments, MapById(data.employees),
                                              MapById(data.projects))]
    /\ UNCHANGED data

CreateSkillScoreMatrix ==
    /\ out' = [op |-> "createSkillScoreMatrix",
               value |-> createSkillScoreMatrix(data.employees, data.projects)]
    /\ UNCHANGED data

-----------------------------------------------------------------------------
(* Placeholder Optimizer *)

\* s.startsWith(prefix)
StartsWith(s, prefix) == Len(s) >= Len(prefix) /\ SubSeq(s, 1, Len(prefix)) = prefix

\* the decimal digits
Digits == {"0", "1", "2", "3", "4", "5", "6", "7", "8", "9"}
\* s is a non-empty string of digits
AllDigits(s) == Len(s) > 0 /\ \A i \in 1..Len(s) : SubSeq(s, i, i) \in Digits

\* a filter that takes the prefix for a placeholder only when digits follow it
isPlaceholderNumbered(a) ==
    \/ a.employeeId = ""
    \/ a.employeeId = "Placeholder"
    \/ a.employeeId = "placeholder"
    \/ /\ StartsWith(a.employeeId, "Placeholder ")
       /\ AllDigits(SubSeq(a.employeeId, 13, Len(a.employeeId)))

\* the filter of optimizeSchedule that collects the placeholder assignments
isPlaceholder(a) ==
    \/ a.employeeId = ""
    \/ a.employeeId = "Placeholder"
    \/ a.employeeId = "placeholder"
    \/ StartsWith(a.employeeId, "Placeholder ")

\* calculateTotalOvertime, as a number of hours
calculateTotalOvertime(emps, asgs) ==
    LET counted == { i \in DOMAIN asgs : /\ asgs[i].employeeId # ""
                                          /\ asgs[i].employeeId # "Placeholder"
                                          /\ asgs[i].employeeId # "placeholder"
                                          /\ ~StartsWith(asgs[i].employeeId, "Placeholder ") }
        periodsOf(id) == { TimeKey(asgs[i]) : i \in { j \in counted : asgs[j].employeeId = id } }
        hoursIn(id, period) ==
            SumOver({ i \in counted : asgs[i].employeeId = id /\ TimeKey(asgs[i]) = period },
                    [i \in DOMAIN asgs |-> asgs[i].hours])
        overtimeOf(i) ==
            LET periods == periodsOf(emps[i].id)
            IN SumOver(periods, [p \in periods |->
                                    IF hoursIn(emps[i].id, p) > emps[i].maxHours
                                    THEN hoursIn(emps[i].id, p) - emps[i].maxHours
                                    ELSE 0])
    IN HoursFrac(SumOver(DOMAIN emps, [i \in DOMAIN emps |-> overtimeOf(i)]))

\* the metrics of the result: current* of one assignment list, predicted* of another
resultMetrics(d, currentAssignments, predictedAssignments) ==
    [currentOvertimeHours |-> calculateTotalOvertime(d.employees, currentAssignments),
     currentUtilization |->
        calculateResourceUtilization(d.employees, currentAssignments, d.dateRange),
     currentSkillsMatch |->
        calculateSkillsMatch(currentAssignments, MapById(d.employees), MapById(d.projects)),
     predictedOvertimeHours |-> calculateTotalOvertime(d.employees, predictedAssignments),
     predictedUtilization |->
        calculateResourceUtilization(d.employees, predictedAssignments, d.dateRange),
     predictedSkillsMatch |->
        calculateSkillsMatch(predictedAssignments, MapById(d.employees), MapById(d.projects))]

\* the result of a run that skips the date range for the predicted utilization
noPlaceholdersResultUnranged(d) ==
    [suggestions |-> <<>>,
     totalScore |-> FracInt(0),
     metrics |-> [resultMetrics(d, d.assignments, d.assignments) EXCEPT
                    !.predictedUtilization =
                        calculateResourceUtilization(d.employees, d.assignments, NoRange)]]

\* the result returned when there is no placeholder to optimize
noPlaceholdersResult(d) ==
    [suggestions |-> <<>>,
     totalScore |-> FracInt(0),
     metrics |-> resultMetrics(d, d.assignments, d.assignments)]

\* `${placeholder.projectId}-${placeholder.week || placeholder.date}`
groupKey(placeholder) ==
    placeholder.projectId \o "-" \o OrElse(placeholder.week, placeholder.date)

RECURSIVE groupsLoop(_, _, _)
\* placeholderGroups, in the order the Map keeps: the order in which the keys
\* were first set
groupsLoop(placeholders, i, groups) ==
    IF i > Len(placeholders) THEN groups
    ELSE LET key == groupKey(placeholders[i])
             at == { j \in DOMAIN groups : groups[j].key = key }
         IN IF at = {}
            THEN groupsLoop(placeholders, i + 1,
                    Append(groups, [key |-> key, placeholders |-> <<placeholders[i]>>]))
            ELSE LET j == CHOOSE x \in at : TRUE
                 IN groupsLoop(placeholders, i + 1,
                        [groups EXCEPT ![j].placeholders = Append(@, placeholders[i])])

placeholderGroups(placeholders) == groupsLoop(placeholders, 1, <<>>)

\* employeeSkills?.get(project.id) || 0
matrixScore(skillScoreMatrix, employeeId, projectId) ==
    IF Has(skillScoreMatrix, employeeId) /\ Has(skillScoreMatrix[employeeId], projectId)
    THEN skillScoreMatrix[employeeId][projectId]
    ELSE 0

\* the hours of employee id over all assignments of the dataset, in units
currentHoursOf(asgs, id) ==
    SumOver({ i \in DOMAIN asgs : asgs[i].employeeId = id },
            [i \in DOMAIN asgs |-> asgs[i].hours])

\* the candidates of findBestEmployee
candidatesOf(emps, excludedEmployees) ==
    SelectSeq(emps, LAMBDA e : /\ e.id # "placeholder"
                               /\ e.id # "Placeholder"
                               /\ ~StartsWith(e.id, "placeholder")
                               /\ e.id \notin excludedEmployees)

\* a score that rewards the utilization also when it exceeds 100%
selectionScoreAlwaysRewarded(employee, placeholder, project, d, w, skillScoreMatrix) ==
    LET newHours == currentHoursOf(d.assignments, employee.id) + placeholder.hours
        penalty == IF newHours > employee.maxHours
                   THEN FracMulInt(HoursFrac(newHours - employee.maxHours), w.overtime)
                   ELSE FracInt(0)
        reward == FracMulInt(Frac(newHours, employee.maxHours), w.utilization)
        skill == FracInt(w.skills * matrixScore(skillScoreMatrix, employee.id, project.id))
    IN FracAdd(FracAdd(FracSub(FracInt(0), penalty), reward), skill)

\* the score findBestEmployee gives to one candidate
selectionScore(employee, placeholder, project, d, w, skillScoreMatrix) ==
    LET newHours == currentHoursOf(d.assignments, employee.id) + placeholder.hours
        wouldCauseOvertime == newHours > employee.maxHours
        penalty == IF wouldCauseOvertime
                   THEN FracMulInt(HoursFrac(newHours - employee.maxHours), w.overtime)
                   ELSE FracInt(0)
        \* utilizationRatio <= 1; a division by maxHours = 0 gives Infinity or NaN,
        \* and neither is <= 1
        reward == IF employee.maxHours > 0 /\ newHours <= employee.maxHours
                  THEN FracMulInt(Frac(newHours, employee.maxHours), w.utilization)
                  ELSE FracInt(0)
        skill == FracInt(w.skills * matrixScore(skillScoreMatrix, employee.id, project.id))
    IN FracAdd(FracAdd(FracSub(FracInt(0), penalty), reward), skill)

RECURSIVE bestLoopLastWins(_, _, _, _, _, _, _, _)
\* a loop that replaces the best employee also on an equal score
bestLoopLastWins(candidates, i, best, bestScore, placeholder, project, d, w) ==
    IF i > Len(candidates) THEN best
    ELSE LET score == selectionScore(candidates[i], placeholder, project, d, w,
                                     createSkillScoreMatrix(d.employees, d.projects))
         IN IF best = 0 \/ FracLeq(bestScore, score)
            THEN bestLoopLastWins(candidates, i + 1, i, score, placeholder, project, d, w)
            ELSE bestLoopLastWins(candidates, i + 1, best, bestScore, placeholder, project, d, w)

RECURSIVE bestLoop(_, _, _, _, _, _, _, _)
\* the loop of findBestEmployee from candidate i on; best = 0 stands for
\* bestEmployee = null and bestScore = -Infinity
bestLoop(candidates, i, best, bestScore, placeholder, project, d, w) ==
    IF i > Len(candidates) THEN best
    ELSE LET score == selectionScore(candidates[i], placeholder, project, d, w,
                                     createSkillScoreMatrix(d.employees, d.projects))
         IN IF best = 0 \/ FracLt(bestScore, score)
            THEN bestLoop(candidates, i + 1, i, score, placeholder, project, d, w)
            ELSE bestLoop(candidates, i + 1, best, bestScore, placeholder, project, d, w)

\* a findBestEmployee that dispatches on the strategy label: 'constraint' leaves
\* out the candidates the slot would put over maxHours
findBestEmployeeDispatching(placeholder, project, d, w, algorithm, excludedEmployees) ==
    LET evaluated == candidatesOf(d.employees, excludedEmployees)
        candidates ==
            IF algorithm = "constraint"
            THEN SelectSeq(evaluated, LAMBDA e :
                    currentHoursOf(d.assignments, e.id) + placeholder.hours <= e.maxHours)
            ELSE evaluated
        best == bestLoop(candidates, 1, 0, FracInt(0), placeholder, project, d, w)
    IN IF Len(candidates) = 0 THEN <<>> ELSE <<candidates[best]>>

\* findBestEmployee: the employee found, as a list of one, or nobody (null); the
\* parameter _algorithm is never read
findBestEmployee(placeholder, project, d, w, algorithm, excludedEmployees) ==
    LET candidates == candidatesOf(d.employees, excludedEmployees)
        best == bestLoop(candidates, 1, 0, FracInt(0), placeholder, project, d, w)
    IN IF Len(candidates) = 0 THEN <<>> ELSE <<candidates[best]>>

\* scores whose utilization is not capped at 100
calculateAssignmentScoresUncapped(employee, assignment, project, d, skillScoreMatrix) ==
    LET newTotalHours == currentHoursOf(d.assignments, employee.id) + assignment.hours
    IN [overtime |-> IF newTotalHours > employee.maxHours
                     THEN FracSub(FracInt(0), HoursFrac(newTotalHours - employee.maxHours))
                     ELSE FracInt(0),
        utilization |-> Frac(newTotalHours * 100, employee.maxHours),
        skills |-> FracInt(matrixScore(skillScoreMatrix, employee.id, project.id) * 100)]

\* calculateAssignmentScores, for an employee with maxHours > 0
calculateAssignmentScores(employee, assignment, project, d, skillScoreMatrix) ==
    LET newTotalHours == currentHoursOf(d.assignments, employee.id) + assignment.hours
    IN [overtime |-> IF newTotalHours > employee.maxHours
                     THEN FracSub(FracInt(0), HoursFrac(newTotalHours - employee.maxHours))
                     ELSE FracInt(0),
        utilization |-> FracMin(FracInt(100), Frac(newTotalHours * 100, employee.maxHours)),
        skills |-> FracInt(matrixScore(skillScoreMatrix, employee.id, project.id) * 100)]

\* the suggestion pushed for a placeholder and its best employee (the display
\* names of the project and of the employee are left out)
suggestionFor(bestEmployee, placeholder, project, d) ==
    LET scores == calculateAssignmentScores(bestEmployee, placeholder, project, d,
                        createSkillScoreMatrix(d.employees, d.projects))
    IN [projectId |-> project.id,
        week |-> placeholder.week,
        originalHours |-> placeholder.hours,
        suggestedEmployeeId |-> bestEmployee.id,
        overtimeScore |-> scores.overtime,
        utilizationScore |-> scores.utilization,
        skillsScore |-> scores.skills]

applysuggestions(asgs, suggestions) ==
    LET replacedPlaceholders ==
            { suggestions[i].projectId \o "-" \o suggestions[i].week : i \in DOMAIN suggestions }
        filtered == SelectSeq(asgs, LAMBDA a :
                        \/ ~isPlaceholder(a)
                        \/ groupKey(a) \notin replacedPlaceholders)
        added == [i \in DOMAIN suggestions |->
                    [id |-> suggestions[i].suggestedEmployeeId \o "-"
                                \o suggestions[i].projectId \o "-" \o suggestions[i].week,
                     employeeId |-> suggestions[i].suggestedEmployeeId,
                     projectId |-> suggestions[i].projectId,
                     week |-> suggestions[i].week,
                     date |-> suggestions[i].week,
                     hours |-> suggestions[i].originalHours]]
    IN filtered \o added

RECURSIVE calculateTotalScore(_, _)
calculateTotalScore(suggestions, w) ==
    IF suggestions = <<>> THEN FracInt(0)
    ELSE LET s == suggestions[Len(suggestions)]
         IN FracAdd(calculateTotalScore(SubSeq(suggestions, 1, Len(suggestions) - 1), w),
                FracAdd(FracAdd(FracMulInt(s.overtimeScore, w.overtime),
                                FracMulInt(s.utilizationScore, w.utilization)),
                        FracMulInt(s.skillsScore, w.skills)))

\* the locals of a run that has not started, called with the strategy 'genetic';
\* replaced keeps, for each suggestion,
\* the placeholder it was made for, and progress the values handed to onProgress
OptIdle ==
    [pc |-> "start", algorithm |-> "genetic",
     placeholderAssignments |-> <<>>, placeholderGroups |-> <<>>,
     group |-> 1, index |-> 1, assignedEmployeesForWeek |-> {},
     suggestions |-> <<>>, replaced |-> <<>>, processedCount |-> 0, progress |-> <<>>]

NoResult == [suggestions |-> <<>>, totalScore |-> FracInt(0), metrics |-> <<>>]

\* optimizeSchedule up to its loop: collect the placeholders and return if there
\* is none, else report 10 and group them
\* a start of optimizeSchedule that reports progress before it looks for
\* placeholders
OptimizeStartReportingFirst ==
    /\ opt.pc = "start"
    /\ LET placeholderAssignments == SelectSeq(data.assignments, isPlaceholder)
       IN IF Len(placeholderAssignments) = 0
          THEN /\ result' = noPlaceholdersResult(data)
               /\ opt' = [opt EXCEPT !.pc = "done", !.progress = <<FracInt(10)>>]
          ELSE /\ opt' = [opt EXCEPT !.pc = "loop",
                                     !.placeholderAssignments = placeholderAssignments,
                                     !.placeholderGroups =
                                            placeholderGroups(placeholderAssignments),
                                     !.progress = <<FracInt(10)>>]
               /\ UNCHANGED result
    /\ UNCHANGED <<data, weights>>

OptimizeStart ==
    /\ opt.pc = "start"
    /\ LET placeholderAssignments == SelectSeq(data.assignments, isPlaceholder)
       IN IF Len(placeholderAssignments) = 0
          THEN /\ result' = noPlaceholdersResult(data)
               /\ opt' = [opt EXCEPT !.pc = "done"]
          ELSE /\ opt' = [opt EXCEPT !.pc = "loop",
                                     !.placeholderAssignments = placeholderAssignments,
                                     !.placeholderGroups =
                                            placeholderGroups(placeholderAssignments),
                                     !.progress = <<FracInt(10)>>]
               /\ UNCHANGED result
    /\ UNCHANGED <<data, weights>>

\* a group whose project is not found: continue with the next group
SkipGroup ==
    /\ opt.pc = "loop"
    /\ opt.group <= Len(opt.placeholderGroups)
    /\ ~Has(MapById(data.projects), opt.placeholderGroups[opt.group].placeholders[1].projectId)
    /\ opt' = [opt EXCEPT !.group = @ + 1]
    /\ UNCHANGED <<data, weights, result>>

\* a loop body that lets findBestEmployee see the suggestions made so far as
\* assignments of the dataset
ResolvePlaceholderCarryingHours ==
    /\ opt.pc = "loop"
    /\ opt.group <= Len(opt.placeholderGroups)
    /\ LET placeholders == opt.placeholderGroups[opt.group].placeholders
           projectMap == MapById(data.projects)
       IN /\ Has(projectMap, placeholders[1].projectId)
          /\ LET project == projectMap[placeholders[1].projectId]
                 placeholder == placeholders[opt.index]
                 bestEmployee == findBestEmployee(placeholder, project,
                                     [data EXCEPT !.assignments =
                                        applysuggestions(data.assignments, opt.suggestions)],
                                     weights,
                                                  opt.algorithm,
                                                  opt.assignedEmployeesForWeek)
                 found == bestEmployee # <<>>
                 processedCount == opt.processedCount + 1
                 last == opt.index = Len(placeholders)
             IN opt' = [opt EXCEPT
                    !.assignedEmployeesForWeek =
                        IF last THEN {}
                        ELSE IF found THEN @ \cup {bestEmployee[1].id} ELSE @,
                    !.suggestions =
                        IF found
                        THEN Append(@, suggestionFor(bestEmployee[1], placeholder, project, data))
                        ELSE @,
                    !.replaced = IF found THEN Append(@, placeholder) ELSE @,
                    !.processedCount = processedCount,
                    !.progress =
                        Append(@, FracAdd(FracInt(10),
                                    Frac(processedCount * 80, Len(opt.placeholderAssignments)))),
                    !.index = IF last THEN 1 ELSE @ + 1,
                    !.group = IF last THEN @ + 1 ELSE @]
    /\ UNCHANGED <<data, weights, result>>

\* one turn of the inner loop: the await of findBestEmployee for one placeholder
\* and what follows it
ResolvePlaceholder ==
    /\ opt.pc = "loop"
    /\ opt.group <= Len(opt.placeholderGroups)
    /\ LET placeholders == opt.placeholderGroups[opt.group].placeholders
           projectMap == MapById(data.projects)
       IN /\ Has(projectMap, placeholders[1].projectId)
          /\ LET project == projectMap[placeholders[1].projectId]
                 placeholder == placeholders[opt.index]
                 bestEmployee == findBestEmployee(placeholder, project, data, weights,
                                                  opt.algorithm,
                                                  opt.assignedEmployeesForWeek)
                 found == bestEmployee # <<>>
                 processedCount == opt.processedCount + 1
                 last == opt.index = Len(placeholders)
             IN opt' = [opt EXCEPT
                    !.assignedEmployeesForWeek =
                        IF last THEN {}
                        ELSE IF found THEN @ \cup {bestEmployee[1].id} ELSE @,
                    !.suggestions =
                        IF found
                        THEN Append(@, suggestionFor(bestEmployee[1], placeholder, project, data))
                        ELSE @,
                    !.replaced = IF found THEN Append(@, placeholder) ELSE @,
                    !.processedCount = processedCount,
                    !.progress =
                        Append(@, FracAdd(FracInt(10),
                                    Frac(processedCount * 80, Len(opt.placeholderAssignments)))),
                    !.index = IF last THEN 1 ELSE @ + 1,
                    !.group = IF last THEN @ + 1 ELSE @]
    /\ UNCHANGED <<data, weights, result>>

\* an end of optimizeSchedule that writes the predicted assignments into the
\* input dataset
OptimizeFinishCommitting ==
    /\ opt.pc = "loop"
    /\ opt.group > Len(opt.placeholderGroups)
    /\ LET predictedAssignments == applysuggestions(data.assignments, opt.suggestions)
       IN /\ result' = [suggestions |-> opt.suggestions,
                        totalScore |-> calculateTotalScore(opt.suggestions, weights),
                        metrics |-> resultMetrics(data, data.assignments, predictedAssignments)]
          /\ data' = [data EXCEPT !.assignments = predictedAssignments]
    /\ opt' = [opt EXCEPT !.pc = "done", !.progress = Append(@, FracInt(100))]
    /\ UNCHANGED weights

\* optimizeSchedule after its loop: the predicted assignments, the last progress
\* report and the result
OptimizeFinish ==
    /\ opt.pc = "loop"
    /\ opt.group > Len(opt.placeholderGroups)
    /\ LET predictedAssignments == applysuggestions(data.assignments, opt.suggestions)
       IN result' = [suggestions |-> opt.suggestions,
                     totalScore |-> calculateTotalScore(opt.suggestions, weights),
                     metrics |-> resultMetrics(data, data.assignments, predictedAssignments)]
    /\ opt' = [opt EXCEPT !.pc = "done", !.progress = Append(@, FracInt(100))]
    /\ UNCHANGED <<data, weights>>

-----------------------------------------------------------------------------
(* Specification of the calculator: the state after construction, then any
   sequence of calls *)

CalcInit ==
    /\ employees = EmptyMap
    /\ projects = EmptyMap
    /\ assignments = EmptyMap
    /\ assignmentsByEmployee = EmptyMap
    /\ assignmentsByProject = EmptyMap
    /\ cache = EmptyCache(TRUE)
    /\ dirtyTracking = EmptyDirtyTracking
    /\ initialized = FALSE
    /\ returned = NoValue
    /\ reads = 0
    /\ calls = 0

BatchIdle ==
    /\ data = NoData
    /\ out = NoOut

OptimizerIdle ==
    /\ weights = [overtime |-> 0, utilization |-> 0, skills |-> 0]
    /\ opt = OptIdle
    /\ result = NoResult

Init ==
    /\ CalcInit
    /\ BatchIdle
    /\ OptimizerIdle

Call ==
    /\ calls < MaxCalls
    /\ calls' = calls + 1
    /\ UNCHANGED <<batchVars, optVars>>

Next ==
    \/ \E es \in CalcEmployeeLists, ps \in CalcProjectLists, as \in CalcAssignmentLists :
            Call /\ Initialize(es, ps, as)
    \/ \E a \in Assignments(AssignmentIds) : Call /\ AddAssignment(a)
    \/ \E id \in AssignmentIds, u \in Updates : Call /\ UpdateAssignment(id, u)
    \/ \E id \in AssignmentIds : Call /\ RemoveAssignment(id)
    \/ Call /\ GetMetrics

Spec == Init /\ [][Next]_vars

-----------------------------------------------------------------------------
(* Specification of the Metrics Calculator: a dataset, then any sequence of
   calls of the stateless functions on it *)

BatchInit ==
    /\ CalcInit
    /\ OptimizerIdle
    /\ data \in BatchData
    /\ out = NoOut

BatchNext ==
    \/ CalculateMetrics /\ UNCHANGED <<calcVars, optVars>>
    \/ CalculateResourceUtilization /\ UNCHANGED <<calcVars, optVars>>
    \/ CalculateSkillsMatch /\ UNCHANGED <<calcVars, optVars>>
    \/ CreateSkillScoreMatrix /\ UNCHANGED <<calcVars, optVars>>

BatchSpec == BatchInit /\ [][BatchNext]_vars

-----------------------------------------------------------------------------
(* Specification of the Placeholder Optimizer: a dataset and a weight triple,
   then one run of optimizeSchedule on them *)

OptInit ==
    /\ CalcInit
    /\ data \in OptData
    /\ out = NoOut
    /\ weights \in WeightTriples
    /\ opt = OptIdle
    /\ result = NoResult

OptNext ==
    \/ OptimizeStart /\ UNCHANGED <<calcVars, out>>
    \/ SkipGroup /\ UNCHANGED <<calcVars, out>>
    \/ ResolvePlaceholder /\ UNCHANGED <<calcVars, out>>
    \/ OptimizeFinish /\ UNCHANGED <<calcVars, out>>

OptSpec == OptInit /\ [][OptNext]_vars

-----------------------------------------------------------------------------
(* Specification of the two calculators on one dataset: the dataset is handed
   to initialize() and read with getMetrics(), and handed to calculateMetrics() *)

SnapshotInit ==
    /\ CalcInit
    /\ OptimizerIdle
    /\ data \in SnapshotData
    /\ out = NoOut

SnapshotNext ==
    \/ /\ ~initialized
       /\ Initialize(data.employees, data.projects, data.assignments)
       /\ UNCHANGED <<calls, batchVars, optVars>>
    \/ /\ initialized
       /\ GetMetrics
       /\ UNCHANGED <<calls, batchVars, optVars>>
    \/ CalculateMetrics /\ UNCHANGED <<calcVars, optVars>>

SnapshotSpec == SnapshotInit /\ [][SnapshotNext]_vars

-----------------------------------------------------------------------------
(* Specification of the optimizer next to the shared calculator: the
   calculator is initialized with the dataset, then optimizeSchedule is
   called on the dataset with any of the three strategy labels *)

SelectorInit ==
    /\ data \in SelectorData
    /\ LET s == initialize(data.employees, data.projects, data.assignments)
       IN /\ employees = s.employees
          /\ projects = s.projects
          /\ assignments = s.assignments
          /\ assignmentsByEmployee = s.assignmentsByEmployee
          /\ assignmentsByProject = s.assignmentsByProject
          /\ cache = s.cache
          /\ dirtyTracking = s.dirtyTracking
    /\ initialized = TRUE
    /\ returned = NoValue
    /\ reads = 0
    /\ calls = 0
    /\ out = NoOut
    /\ weights \in WeightTriples
    /\ \E algorithm \in Algorithms : opt = [OptIdle EXCEPT !.algorithm = algorithm]
    /\ result = NoResult

SelectorSpec == SelectorInit /\ [][OptNext]_vars

-----------------------------------------------------------------------------
(* Properties of the Incremental Metrics Cache *)

RECURSIVE SeqOfKeys(_, _)
SeqOfKeys(m, keys) ==
    IF keys = {} THEN <<>>
    ELSE LET k == CHOOSE x \in keys : TRUE IN <<m[k]>> \o SeqOfKeys(m, keys \ {k})

\* the values of map m as a list
ValuesOf(m) == SeqOfKeys(m, DOMAIN m)

\* what getMetrics() returns right after initialize(employees, projects, assignments)
\* on the entities the calculator holds now
FreshMetrics ==
    LET s == initialize(ValuesOf(employees), ValuesOf(projects), ValuesOf(assignments))
    IN getMetrics(s.cache, s.dirtyTracking, s.employees, s.projects, s.assignments,
                  s.assignmentsByEmployee, s.assignmentsByProject).result

\* C1 (cache coherence): on an initialized calculator, the value getMetrics()
\* returns after any sequence of add / update / remove calls equals the value
\* returned after initialize() on the final employees, projects and assignments.
C1_CacheCoherence ==
    (initialized /\ returned # NoValue) => returned = FreshMetrics

\* C2 (idempotent reads): a getMetrics() that directly follows a getMetrics()
\* returns the same value and leaves every cached value unchanged.
C2_ReadIdempotent ==
    [][(returned # NoValue /\ returned' # NoValue)
          => (returned' = returned /\ cache' = cache)]_vars

\* C2 witness: two consecutive reads of an initialized calculator that holds an
\* assignment with overtime
C2_Witness ==
    /\ initialized
    /\ reads = 2
    /\ assignments # EmptyMap
    /\ returned.overtimeHours > 0

-----------------------------------------------------------------------------
(* Properties of the Metrics Calculator *)

\* the period keys of the assignments of employee id
PeriodKeysOf(asgs, id) ==
    { TimeKey(asgs[i]) : i \in { j \in DOMAIN asgs : asgs[j].employeeId = id } }

\* the hours of employee id in period k, in units
HoursIn(asgs, id, k) ==
    SumOver({ i \in DOMAIN asgs : asgs[i].employeeId = id /\ TimeKey(asgs[i]) = k },
            [i \in DOMAIN asgs |-> asgs[i].hours])

\* sum over the employees of the list and over the periods in which each has
\* assignments of max(0, hours in the period - maxHours), in units
PeriodScopedOvertime(emps, asgs) ==
    LET cells == { <<i, k>> \in (DOMAIN emps) \X { TimeKey(asgs[j]) : j \in DOMAIN asgs } :
                      k \in PeriodKeysOf(asgs, emps[i].id) }
    IN SumOver(cells, [c \in cells |->
                          Max(0, HoursIn(asgs, emps[c[1]].id, c[2]) - emps[c[1]].maxHours)])

\* every employee of the list is at or under maxHours in every single period
NoPeriodOverMax(emps, asgs) ==
    \A i \in DOMAIN emps : \A k \in PeriodKeysOf(asgs, emps[i].id) :
        HoursIn(asgs, emps[i].id, k) <= emps[i].maxHours

\* C5, as stated: the overtime calculateMetrics returns equals the period-scoped
\* sum of max(0, hours - maxHours) itself (both sides in units of 1/HoursScale hour).
C5_OvertimeIsPeriodSum ==
    out.op = "calculateMetrics" =>
        out.value.overtimeHours * HoursScale
            = PeriodScopedOvertime(data.employees, data.assignments)

\* C5, amended: the overtime calculateMetrics returns equals the period-scoped
\* sum of max(0, hours - maxHours) rounded to the nearest integer number of hours,
\* and it is 0 when every employee is at or under maxHours in every single
\* period, whatever the hours summed over all periods.
C5_OvertimeIsRoundedPeriodSum ==
    out.op = "calculateMetrics" =>
        /\ 2 * HoursScale * out.value.overtimeHours
              <= 2 * PeriodScopedOvertime(data.employees, data.assignments) + HoursScale
        /\ 2 * PeriodScopedOvertime(data.employees, data.assignments) + HoursScale
              < 2 * HoursScale * (out.value.overtimeHours + 1)
        /\ NoPeriodOverMax(data.employees, data.assignments) => out.value.overtimeHours = 0

\* C5 witness: calculateMetrics returned no overtime for an employee who is at
\* or under maxHours in each of two periods and over maxHours in total
C5_Witness ==
    /\ out.op = "calculateMetrics"
    /\ out.value.overtimeHours = 0
    /\ \E i \in DOMAIN data.employees :
          /\ Cardinality(PeriodKeysOf(data.assignments, data.employees[i].id)) = 2
          /\ SumOver({ j \in DOMAIN data.assignments :
                          data.assignments[j].employeeId = data.employees[i].id },
                     [j \in DOMAIN data.assignments |-> data.assignments[j].hours])
                > data.employees[i].maxHours

\* the inclusive week span of a date range
InclusiveWeekSpan(range) == (range[2] - range[1]) \div 7 + 1

\* C6 (batch utilization): calculateResourceUtilization returns
\* round(100 * totalAssignedHours / (sum of maxHours * numPeriods)), where
\* totalAssignedHours sums the hours of the assignments whose employeeId is in
\* the employee list and numPeriods is max(1, inclusive week span) when a range is
\* given, else max(1, number of distinct period keys over all assignments); it
\* returns 0 when the employee list is empty or the total capacity is 0.
C6_BatchUtilization ==
    out.op = "calculateResourceUtilization" =>
        LET ids == { data.employees[i].id : i \in DOMAIN data.employees }
            listed == { j \in DOMAIN data.assignments : data.assignments[j].employeeId \in ids }
            total == SumOver(listed, [j \in DOMAIN data.assignments |-> data.assignments[j].hours])
            periods == IF data.dateRange # NoRange
                       THEN Max(1, InclusiveWeekSpan(data.dateRange))
                       ELSE Max(1, Cardinality({ OrElse(data.assignments[j].date,
                                                        data.assignments[j].week) :
                                                    j \in DOMAIN data.assignments }))
            capacity == periods * SumOver(DOMAIN data.employees,
                            [i \in DOMAIN data.employees |-> data.employees[i].maxHours])
        IN IF data.employees = <<>> \/ capacity = 0
           THEN out.value = 0
           ELSE /\ 2 * capacity * out.value <= 200 * total + capacity
                /\ 200 * total + capacity < 2 * capacity * (out.value + 1)

\* C6 witness: a utilization computed over a date range of two weeks for a
\* dataset in which an assignment refers to nobody of the employee list
C6_Witness ==
    /\ out.op = "calculateResourceUtilization"
    /\ data.dateRange = DateRange(0, 13)
    /\ out.value > 0
    /\ \E j \in DOMAIN data.assignments :
          data.assignments[j].employeeId
              \notin { data.employees[i].id : i \in DOMAIN data.employees }

\* C7 (utilization range): the resourceUtilization returned by calculateMetrics
\* and by calculateResourceUtilization is an integer in 0..100, also when
\* employees are assigned more hours than their capacity.
C7_UtilizationInRange ==
    /\ out.op = "calculateResourceUtilization" => out.value \in 0..100
    /\ out.op = "calculateMetrics" => out.value.resourceUtilization \in 0..100

\* the assignment list without its placeholder assignments
WithoutPlaceholders(asgs) == SelectSeq(asgs, LAMBDA a : ~isPlaceholder(a))

\* C8 (placeholders excluded): the overtimeHours and resourceUtilization that
\* calculateMetrics computes on a dataset equal those it computes on the same
\* dataset with all placeholder assignments removed.
C8_PlaceholdersExcluded ==
    out.op = "calculateMetrics" =>
        LET clean == calculateMetrics(data.employees, data.projects,
                                      WithoutPlaceholders(data.assignments), data.dateRange)
        IN /\ out.value.overtimeHours = clean.overtimeHours
           /\ out.value.resourceUtilization = clean.resourceUtilization

\* C9 (each pair once): calculateSkillsMatch returns the sum, over the set of
\* distinct (employeeId, projectId) pairs of the assignment list, of
\* getEmployeeProjectSkillScore(employee, project), a pair whose employee or
\* project does not resolve or whose project has no required skills counting 0.
C9_EachPairOnce ==
    out.op = "calculateSkillsMatch" =>
        LET employeeMap == MapById(data.employees)
            projectMap == MapById(data.projects)
            pairs == { <<data.assignments[j].employeeId, data.assignments[j].projectId>> :
                          j \in DOMAIN data.assignments }
            scoreOf(pair) ==
                IF Has(employeeMap, pair[1]) /\ Has(projectMap, pair[2])
                THEN getEmployeeProjectSkillScore(employeeMap[pair[1]], projectMap[pair[2]])
                ELSE 0
        IN out.value = SumOver(pairs, [pair \in pairs |-> scoreOf(pair)])

\* the proficiency weight of a skill for an employee: Beginner 1,
\* Intermediate 2, Expert 3, absent 0
ProficiencyWeight(employee, skill) ==
    IF skill \notin DOMAIN employee.skills THEN 0
    ELSE CASE employee.skills[skill] = "Beginner" -> 1
           [] employee.skills[skill] = "Intermediate" -> 2
           [] employee.skills[skill] = "Expert" -> 3

\* the sum over the project's required skills of the employee's proficiency weight
WeightSum(employee, project) ==
    SumOver(DOMAIN project.requiredSkills,
            [k \in DOMAIN project.requiredSkills |->
                ProficiencyWeight(employee, project.requiredSkills[k])])

\* C10 (sparse and exact matrix): createSkillScoreMatrix has an entry for
\* (employee, project) exactly when the sum of the employee's proficiency weights
\* over the project's required skills is greater than 0, the entry holds that
\* sum, an employee with no positive score has no row, and a project with no
\* required skills scores 0 for every employee.
C10_MatrixSparseExact ==
    out.op = "createSkillScoreMatrix" =>
        LET matrix == out.value
            ids == { data.employees[i].id : i \in DOMAIN data.employees }
        IN /\ DOMAIN matrix \subseteq ids
           /\ \A i \in DOMAIN data.employees :
                LET employee == data.employees[i]
                    positive == { j \in DOMAIN data.projects :
                                     WeightSum(employee, data.projects[j]) > 0 }
                IN /\ Has(matrix, employee.id) <=> positive # {}
                   /\ Has(matrix, employee.id) =>
                        /\ DOMAIN matrix[employee.id] = { data.projects[j].id : j \in positive }
                        /\ \A j \in positive :
                              matrix[employee.id][data.projects[j].id]
                                  = WeightSum(employee, data.projects[j])
                   /\ \A j \in DOMAIN data.projects :
                        data.projects[j].requiredSkills = <<>> =>
                            getEmployeeProjectSkillScore(employee, data.projects[j]) = 0

\* C10 witness: a matrix with a row for one employee and none for another, built
\* for projects of which one has no required skills
C10_Witness ==
    /\ out.op = "createSkillScoreMatrix"
    /\ \E i, k \in DOMAIN data.employees :
          Has(out.value, data.employees[i].id) /\ ~Has(out.value, data.employees[k].id)
    /\ \E j \in DOMAIN data.projects : data.projects[j].requiredSkills = <<>>

-----------------------------------------------------------------------------
(* Properties of the Placeholder Optimizer *)

\* an employee reference that marks a placeholder: empty, the sentinel in
\* either case, or the sentinel followed by a space and a numbering
PlaceholderRef(ref) ==
    \/ ref = ""
    \/ ref \in {"Placeholder", "placeholder"}
    \/ (Len(ref) >= 12 /\ SubSeq(ref, 1, 12) = "Placeholder ")

\* the positions of the placeholders in the input assignment list
PlaceholderPositions == { i \in DOMAIN data.assignments :
                            PlaceholderRef(data.assignments[i].employeeId) }

\* the period key of an assignment: its date, or its week label when it has no date
PeriodKey(a) == IF a.date # "" THEN a.date ELSE a.week

\* two assignments of the same (project, period) group
SameProjectPeriod(a, b) == a.projectId = b.projectId /\ PeriodKey(a) = PeriodKey(b)

\* the positions of the suggestions made for the placeholders of the group of a
SuggestionsOfGroup(a) ==
    { k \in DOMAIN result.suggestions : SameProjectPeriod(opt.replaced[k], a) }

\* the employees that may be suggested: those whose id is no placeholder reference
EligibleEmployees ==
    { i \in DOMAIN data.employees : ~PlaceholderRef(data.employees[i].id) }

\* C3 (grouped uniqueness): within one (project, period) group of placeholders no
\* two suggestions of the result name the same suggestedEmployeeId, and a group of
\* N placeholders yields exactly N suggestions when there are at least N eligible
\* employees (counted here only for the groups whose project is in the project
\* list: nobody is eligible for a project that does not exist).
C3_GroupedUniqueness ==
    opt.pc = "done" =>
        /\ \A k, l \in DOMAIN result.suggestions :
              (k # l /\ SameProjectPeriod(opt.replaced[k], opt.replaced[l]))
                  => result.suggestions[k].suggestedEmployeeId
                        # result.suggestions[l].suggestedEmployeeId
        /\ \A i \in PlaceholderPositions :
              LET n == Cardinality({ j \in PlaceholderPositions :
                          SameProjectPeriod(data.assignments[j], data.assignments[i]) })
              IN (/\ Has(MapById(data.projects), data.assignments[i].projectId)
                  /\ Cardinality(EligibleEmployees) >= n)
                    => Cardinality(SuggestionsOfGroup(data.assignments[i])) = n

\* C4 (optimizer no-op): for a dataset without any placeholder assignment the
\* result has no suggestion and each predicted metric equals the current one.
C4_NoOp ==
    (opt.pc = "done" /\ PlaceholderPositions = {}) =>
        /\ result.suggestions = <<>>
        /\ result.metrics.predictedOvertimeHours = result.metrics.currentOvertimeHours
        /\ result.metrics.predictedUtilization = result.metrics.currentUtilization
        /\ result.metrics.predictedSkillsMatch = result.metrics.currentSkillsMatch

\* C4 witness: a finished run on a dataset with assignments, none of them a
\* placeholder, and with a date range, that reports a utilization above 0
C4_Witness ==
    /\ opt.pc = "done"
    /\ PlaceholderPositions = {}
    /\ data.assignments # <<>>
    /\ data.dateRange # NoRange
    /\ result.suggestions = <<>>
    /\ result.metrics.currentUtilization > 0
    /\ result.metrics.currentSkillsMatch > 0

-----------------------------------------------------------------------------
(* Properties of the Incremental Metrics Cache: frame, indices, initialize *)

\* the per-entity result cache: everything of the cache but the dirty flag
ResultCache == <<cache.overtimeByEmployee, cache.utilizationByEmployee,
                 cache.skillsMatchByProject>>

\* the step is the call initialize(es, ps, as); the entity maps are compared
\* first, the cached values only for the datasets that match them
InitializeCall(es, ps, as) ==
    /\ returned' = NoValue
    /\ ~cache'.isDirty
    /\ employees' = MapById(es)
    /\ projects' = MapById(ps)
    /\ assignments' = MapById(as)
    /\ Initialize(es, ps, as)

\* the step is a call of initialize()
InitializeStep ==
    \E es \in CalcEmployeeLists, ps \in CalcProjectLists, as \in CalcAssignmentLists :
        InitializeCall(es, ps, as)

\* C11 (deferred recomputation): a call of addAssignment, updateAssignment or
\* removeAssignment (a call that is neither getMetrics nor initialize) leaves the
\* per-entity result cache, the employee map and the project map unchanged; the
\* cached values change only inside getMetrics or initialize.
C11_DeferredRecomputation ==
    [][(returned' = NoValue /\ ~InitializeStep)
          => (ResultCache' = ResultCache /\ employees' = employees /\ projects' = projects)]_vars

\* C11 witness: after initialize() and the removal of the only assignment the
\* cache still holds the overtime computed for it, and is marked dirty
C11_Witness ==
    /\ initialized
    /\ assignments = EmptyMap
    /\ cache.isDirty
    /\ dirtyTracking.dirtyEmployees # {}
    /\ \E e \in DOMAIN cache.overtimeByEmployee : cache.overtimeByEmployee[e] # EmptyMap

\* the ids filed under key in a reverse index
Filed(index, key) == IF Has(index, key) THEN index[key] ELSE {}

\* the cache after a getMetrics() called in the state the step leads to
CacheAfterNextGetMetrics ==
    getMetrics(cache', dirtyTracking', employees', projects', assignments',
               assignmentsByEmployee', assignmentsByProject').cache

\* the cached overtime and utilization of employee e hold what the assignments
\* filed under e, other than id, give
ExcludesHours(c, e, id) ==
    LET byEmp == DeleteFromIndex(assignmentsByEmployee', e, id)
        ot == calculateEmployeeOvertime(c, employees', assignments', byEmp, e)
        ut == calculateEmployeeUtilization(c, employees', assignments', byEmp, e)
    IN Has(employees', e) =>
          /\ c.overtimeByEmployee = ot.overtimeByEmployee
          /\ c.utilizationByEmployee = ut.utilizationByEmployee

\* C12 (re-homing on update): an updateAssignment(id, changes) that changes the
\* employee reference of a stored assignment from e1 to a different e2 leaves id
\* in the index of e2 and not in the index of e1, and e1 and e2 in the dirty
\* employee set; the same for a changed project reference with the project
\* index and the dirty project set; and a getMetrics() called next leaves a
\* cached overtime and utilization of e1 without that assignment's hours.
C12_RehomingOnUpdate ==
    [][\A id \in AssignmentIds, u \in Updates :
          (UpdateAssignment(id, u) /\ Has(assignments, id)) =>
             LET e1 == assignments[id].employeeId
                 e2 == assignments'[id].employeeId
                 p1 == assignments[id].projectId
                 p2 == assignments'[id].projectId
             IN /\ e1 # e2 =>
                     /\ id \in Filed(assignmentsByEmployee', e2)
                     /\ id \notin Filed(assignmentsByEmployee', e1)
                     /\ {e1, e2} \subseteq dirtyTracking'.dirtyEmployees
                     /\ ExcludesHours(CacheAfterNextGetMetrics, e1, id)
                /\ p1 # p2 =>
                     /\ id \in Filed(assignmentsByProject', p2)
                     /\ id \notin Filed(assignmentsByProject', p1)
                     /\ {p1, p2} \subseteq dirtyTracking'.dirtyProjects]_vars

\* the elements of list xs as a set
ElementsOf(xs) == { xs[i] : i \in DOMAIN xs }

\* what a calculator that has seen nothing else holds after initialize(es, ps, as):
\* the entities by id, every assignment filed under its references and nowhere
\* else, one cached value per employee and project of the dataset computed from
\* the dataset alone, and no dirty entry
FreshlyInitialized(es, ps, as) ==
    /\ DOMAIN employees' = { x.id : x \in ElementsOf(es) }
    /\ DOMAIN projects' = { x.id : x \in ElementsOf(ps) }
    /\ DOMAIN assignments' = { x.id : x \in ElementsOf(as) }
    /\ \A x \in ElementsOf(es) : employees'[x.id] = x
    /\ \A x \in ElementsOf(ps) : projects'[x.id] = x
    /\ \A x \in ElementsOf(as) : assignments'[x.id] = x
    /\ DOMAIN assignmentsByEmployee' = { x.employeeId : x \in ElementsOf(as) }
    /\ DOMAIN assignmentsByProject' = { x.projectId : x \in ElementsOf(as) }
    /\ \A k \in DOMAIN assignmentsByEmployee' : assignmentsByEmployee'[k] =
          { x.id : x \in { y \in ElementsOf(as) : y.employeeId = k } }
    /\ \A k \in DOMAIN assignmentsByProject' : assignmentsByProject'[k] =
          { x.id : x \in { y \in ElementsOf(as) : y.projectId = k } }
    /\ DOMAIN cache'.overtimeByEmployee = DOMAIN employees'
    /\ DOMAIN cache'.utilizationByEmployee = DOMAIN employees'
    /\ DOMAIN cache'.skillsMatchByProject = DOMAIN projects'
    /\ \A e \in DOMAIN employees' :
          LET c == calculateEmployeeUtilization(
                       calculateEmployeeOvertime(EmptyCache(FALSE), employees', assignments',
                                                 assignmentsByEmployee', e),
                       employees', assignments', assignmentsByEmployee', e)
          IN /\ cache'.overtimeByEmployee[e] = c.overtimeByEmployee[e]
             /\ cache'.utilizationByEmployee[e] = c.utilizationByEmployee[e]
    /\ \A p \in DOMAIN projects' :
          cache'.skillsMatchByProject[p] =
             calculateProjectSkillsMatch(EmptyCache(FALSE), employees', projects', assignments',
                                         assignmentsByProject', p).skillsMatchByProject[p]
    /\ dirtyTracking' = EmptyDirtyTracking

\* C13 (initialize is history-independent): whatever calls were made before,
\* initialize(E, P, A) leaves the entity maps, both reverse indices, the
\* per-entity result cache and the dirty sets that a calculator which has seen
\* nothing but E, P, A holds; no entry of the earlier dataset survives.
C13_InitializeHistoryIndependent ==
    [][\A es \in CalcEmployeeLists, ps \in CalcProjectLists, as \in CalcAssignmentLists :
          (returned' = NoValue /\ ~cache'.isDirty /\ Initialize(es, ps, as))
              => FreshlyInitialized(es, ps, as)]_vars

\* C13 witness: a calculator that has been used before (at least two calls) and
\* has just been initialized with the one-employee, one-project dataset without
\* assignments
C13_Witness ==
    /\ initialized
    /\ calls >= 2
    /\ returned = NoValue
    /\ ~cache.isDirty
    /\ dirtyTracking = EmptyDirtyTracking
    /\ DOMAIN employees = {"e1"}
    /\ DOMAIN projects = {"p1"}
    /\ assignments = EmptyMap
    /\ assignmentsByEmployee = EmptyMap
    /\ DOMAIN cache.utilizationByEmployee = {"e1"}

-----------------------------------------------------------------------------
(* Properties of the Optimizer: selection, scores, predicted list *)

\* C14 (no sentinel is suggested): no suggestion of a finished run names an
\* employee whose id is empty, is the sentinel, or is the sentinel prefix
\* followed by a space and digits (an employee record 'Placeholder 1').
C14_NoSentinelSuggested ==
    opt.pc = "done" =>
        \A i \in DOMAIN result.suggestions :
            ~PlaceholderRef(result.suggestions[i].suggestedEmployeeId)

\* the step resolves a placeholder: a suggestion is pushed
SuggestionPushed == opt.pc = "loop" /\ Len(opt'.suggestions) = Len(opt.suggestions) + 1

\* the suggestion pushed by the step, the placeholder it is made for, and the
\* positions in the input lists of its project and of its employee
PushedSuggestion == opt'.suggestions[Len(opt'.suggestions)]
PushedSlot == opt'.replaced[Len(opt'.replaced)]
PushedProject == CHOOSE i \in DOMAIN data.projects : data.projects[i].id = PushedSuggestion.projectId
ChosenEmployee ==
    CHOOSE i \in DOMAIN data.employees : data.employees[i].id = PushedSuggestion.suggestedEmployeeId

\* the positions of the employees evaluated for a placeholder: those that pass
\* the filter of findBestEmployee and are not yet used in the group
Evaluated(used) ==
    { i \in DOMAIN data.employees :
        /\ data.employees[i].id \notin used
        /\ \E k \in DOMAIN candidatesOf(data.employees, {}) :
              candidatesOf(data.employees, {})[k] = data.employees[i] }

\* the hours of employee e over all assignments of the input dataset, and the
\* hours e would have with the slot, in units
CurrentHours(e) ==
    SumOver({ j \in DOMAIN data.assignments : data.assignments[j].employeeId = e.id },
            [j \in DOMAIN data.assignments |-> data.assignments[j].hours])

\* skillsWeight * skillScore + utilizationWeight * ratio (only when ratio <= 1)
\* - overtimeWeight * max(0, currentHours + slotHours - maxHours)
DocumentedScore(e, slot, project) ==
    LET total == CurrentHours(e) + slot.hours
        skillPart == FracInt(weights.skills * WeightSum(e, project))
        utilizationPart == IF total <= e.maxHours
                           THEN Frac(weights.utilization * total, e.maxHours)
                           ELSE FracInt(0)
        overtimePart == Frac(weights.overtime * Max(0, total - e.maxHours), HoursScale)
    IN FracSub(FracAdd(skillPart, utilizationPart), overtimePart)

C17_UnfillableSlotsSkipped ==
    opt.pc = "done" =>
        \A i \in PlaceholderPositions :
            LET n == Cardinality({ j \in PlaceholderPositions :
                        SameProjectPeriod(data.assignments[j], data.assignments[i]) })
                made == Cardinality(SuggestionsOfGroup(data.assignments[i]))
            IN IF Has(MapById(data.projects), data.assignments[i].projectId)
               THEN made = Min(n, Cardinality(EligibleEmployees))
               ELSE made = 0

\* the list the predicted metrics are computed from
PredictedAssignments == applysuggestions(data.assignments, result.suggestions)

\* the assignments of the input that stay: those that are no placeholder, and the
\* placeholders of a (project, period) group without a suggestion
StayingAssignments ==
    SelectSeq(data.assignments,
              LAMBDA a : ~PlaceholderRef(a.employeeId) \/ SuggestionsOfGroup(a) = {})

\* C18 (predicted list synthesis): the predicted list holds every non-placeholder
\* assignment of the input unchanged, every placeholder whose (project, period)
\* group received no suggestion unchanged, no placeholder of a group that
\* received a suggestion, and one concrete assignment per suggestion with the
\* suggestion's employee, project, period and original hours.
C18_PredictedListSynthesis ==
    opt.pc = "done" =>
        LET n == Len(StayingAssignments) IN
        /\ Len(PredictedAssignments) = n + Len(result.suggestions)
        /\ SubSeq(PredictedAssignments, 1, n) = StayingAssignments
        /\ \A k \in DOMAIN result.suggestions :
              LET concrete == PredictedAssignments[n + k]
                  suggestion == result.suggestions[k]
              IN /\ concrete.employeeId = suggestion.suggestedEmployeeId
                 /\ concrete.projectId = suggestion.projectId
                 /\ PeriodKey(concrete) = suggestion.week
                 /\ concrete.hours = suggestion.originalHours

\* C19 (optimizer metrics agree with the batch calculator): in a finished run
\* currentOvertimeHours, currentUtilization and currentSkillsMatch are the
\* overtimeHours, resourceUtilization and skillsMatching of calculateMetrics on
\* the input assignment list, and the predicted values are those of
\* calculateMetrics on the predicted list.
C19_MetricsAgreeWithBatch ==
    opt.pc = "done" =>
        LET current == calculateMetrics(data.employees, data.projects, data.assignments,
                                        data.dateRange)
            predicted == calculateMetrics(data.employees, data.projects, PredictedAssignments,
                                          data.dateRange)
        IN /\ result.metrics.currentOvertimeHours = FracInt(current.overtimeHours)
           /\ result.metrics.currentUtilization = current.resourceUtilization
           /\ result.metrics.currentSkillsMatch = current.skillsMatching
           /\ result.metrics.predictedOvertimeHours = FracInt(predicted.overtimeHours)
           /\ result.metrics.predictedUtilization = predicted.resourceUtilization
           /\ result.metrics.predictedSkillsMatch = predicted.skillsMatching

\* the employee and the project a suggestion of the result names
SuggestedEmployee(k) ==
    data.employees[CHOOSE i \in DOMAIN data.employees :
                        data.employees[i].id = result.suggestions[k].suggestedEmployeeId]
SuggestedProject(k) ==
    data.projects[CHOOSE i \in DOMAIN data.projects :
                        data.projects[i].id = result.suggestions[k].projectId]

\* overtimeScore * overtimeWeight + utilizationScore * utilizationWeight
\* + skillsScore * skillsWeight of the k-th suggestion
WeightedScore(k) ==
    LET s == result.suggestions[k]
    IN FracAdd(FracAdd(FracMulInt(s.overtimeScore, weights.overtime),
                       FracMulInt(s.utilizationScore, weights.utilization)),
               FracMulInt(s.skillsScore, weights.skills))

-----------------------------------------------------------------------------
(* Properties of the Optimizer: strategy label, frame, classification, keys *)

\* a placeholder of the current group is about to be resolved
AtPlaceholder ==
    /\ opt.pc = "loop"
    /\ opt.group <= Len(opt.placeholderGroups)
    /\ Has(MapById(data.projects), opt.placeholderGroups[opt.group].placeholders[1].projectId)

CurrentPlaceholder == opt.placeholderGroups[opt.group].placeholders[opt.index]
CurrentProject == MapById(data.projects)[opt.placeholderGroups[opt.group].placeholders[1].projectId]

C22_OptimizerReadOnly ==
    [][/\ data' = data
       /\ <<employees, projects, assignments>>' = <<employees, projects, assignments>>
       /\ <<assignmentsByEmployee, assignmentsByProject>>'
             = <<assignmentsByEmployee, assignmentsByProject>>
       /\ cache' = cache
       /\ dirtyTracking' = dirtyTracking]_vars

\* C22 witness: a finished run with a suggestion, next to a calculator that
\* holds the input assignments, the placeholder among them
C22_Witness ==
    /\ opt.pc = "done"
    /\ result.suggestions # <<>>
    /\ initialized
    /\ DOMAIN assignments = { data.assignments[i].id : i \in DOMAIN data.assignments }
    /\ PredictedAssignments # data.assignments
    /\ \E i \in DOMAIN data.assignments :
          data.assignments[i].employeeId = "" /\ assignments[data.assignments[i].id] = data.assignments[i]

\* the classification of the data model: empty, a sentinel, or the prefix, a
\* space and digits
NumberedPlaceholderRef(ref) ==
    \/ ref = ""
    \/ ref \in {"Placeholder", "placeholder"}
    \/ StartsWith(ref, "Placeholder ") /\ AllDigits(SubSeq(ref, 13, Len(ref)))

\* the classification by the prefix and a space alone
PrefixedPlaceholderRef(ref) ==
    \/ ref = ""
    \/ ref \in {"Placeholder", "placeholder"}
    \/ StartsWith(ref, "Placeholder ")

\* the overtime of the employee records over the assignments at the positions
\* counted: per employee and period (date, else week label) the hours over maxHours
OvertimeOfCounted(counted) ==
    LET asgs == data.assignments
        own(e, period) == { i \in counted : asgs[i].employeeId = e.id /\ TimeKey(asgs[i]) = period }
        periodsOf(e) == { TimeKey(asgs[i]) : i \in { j \in counted : asgs[j].employeeId = e.id } }
        over(e, period) ==
            LET hours == SumOver(own(e, period), [i \in DOMAIN asgs |-> asgs[i].hours])
            IN IF hours > e.maxHours THEN hours - e.maxHours ELSE 0
        overtimeOf(e) == SumOver(periodsOf(e), [p \in periodsOf(e) |-> over(e, p)])
    IN HoursFrac(SumOver(DOMAIN data.employees,
                         [i \in DOMAIN data.employees |-> overtimeOf(data.employees[i])]))

\* the three places of a run, classifying by IsRef: the placeholders collected,
\* the current overtime, and the input assignments kept in the predicted list
CollectedBy(IsRef(_)) ==
    opt.pc # "start" =>
        opt.placeholderAssignments = SelectSeq(data.assignments, LAMBDA a : IsRef(a.employeeId))
OvertimeExcludesBy(IsRef(_)) ==
    opt.pc = "done" =>
        result.metrics.currentOvertimeHours
          = OvertimeOfCounted({ i \in DOMAIN data.assignments : ~IsRef(data.assignments[i].employeeId) })
KeptBy(IsRef(_)) ==
    (opt.pc = "done" /\ result.suggestions # <<>>) =>
        LET replaced == { result.suggestions[k].projectId \o "-" \o result.suggestions[k].week :
                            k \in DOMAIN result.suggestions }
        IN SubSeq(PredictedAssignments, 1,
                  Len(PredictedAssignments) - Len(result.suggestions))
             = SelectSeq(data.assignments, LAMBDA a :
                            ~IsRef(a.employeeId) \/ groupKey(a) \notin replaced)

\* C23 (placeholder classification): collection, overtime exclusion and
\* predicted-list filtering treat an assignment as a placeholder exactly when
\* its employee reference is empty, a sentinel, or the prefix followed by a space
\* and digits; every other reference, such as 'Placeholder x', is a real one.
C23_NumberedPlaceholders ==
    /\ CollectedBy(NumberedPlaceholderRef)
    /\ OvertimeExcludesBy(NumberedPlaceholderRef)
    /\ KeptBy(NumberedPlaceholderRef)

\* C23 as amended: the three places treat an assignment as a placeholder exactly
\* when its employee reference is empty, 'Placeholder', 'placeholder', or begins
\* with 'Placeholder ' (the prefix and a space, whatever follows).
C23_PrefixedPlaceholders ==
    /\ CollectedBy(PrefixedPlaceholderRef)
    /\ OvertimeExcludesBy(PrefixedPlaceholderRef)
    /\ KeptBy(PrefixedPlaceholderRef)

\* C23 witness: a finished run over an assignment that refers to 'Placeholder x',
\* which is also the id of an employee record the hours would put over maxHours;
\* the assignment was collected, resolved and left out of the overtime
C23_Witness ==
    /\ opt.pc = "done"
    /\ \E i \in DOMAIN data.assignments, j \in DOMAIN data.employees :
          /\ data.assignments[i].employeeId = "Placeholder x"
          /\ data.employees[j].id = "Placeholder x"
          /\ data.assignments[i].hours > data.employees[j].maxHours
          /\ data.assignments[i] \in ElementsOf(opt.placeholderAssignments)
          /\ data.assignments[i] \notin ElementsOf(PredictedAssignments)
    /\ result.suggestions # <<>>
    /\ result.metrics.currentOvertimeHours = FracInt(0)

\* the key under which applysuggestions records a suggestion as replaced
DropKey(suggestion) == suggestion.projectId \o "-" \o suggestion.week

\* C24 (date takes precedence in the grouping): two placeholders of the same
\* project are in the same group exactly when their period keys (the date, or the
\* week label when there is no date) are equal, whatever their week labels; and
\* the key recorded to drop the placeholder a suggestion replaces is the key of
\* the group of that placeholder.
C24_DatePrecedence ==
    /\ opt.pc = "loop" =>
          \A g, h \in DOMAIN opt.placeholderGroups :
              \A p \in ElementsOf(opt.placeholderGroups[g].placeholders),
                 q \in ElementsOf(opt.placeholderGroups[h].placeholders) :
                  p.projectId = q.projectId => (g = h <=> PeriodKey(p) = PeriodKey(q))
    /\ opt.pc = "done" =>
          \A k \in DOMAIN result.suggestions :
              \E g \in DOMAIN opt.placeholderGroups :
                  /\ opt.replaced[k] \in ElementsOf(opt.placeholderGroups[g].placeholders)
                  /\ DropKey(result.suggestions[k]) = opt.placeholderGroups[g].key

-----------------------------------------------------------------------------
(* Properties of the Incremental Metrics Cache: the values it computes *)

\* C25 (incremental overtime equals batch overtime): for a dataset handed to
\* initialize() and to calculateMetrics(), the overtimeHours getMetrics()
\* returns equals the overtimeHours calculateMetrics() returns.
C25_OvertimeAgreesWithBatch ==
    (returned # NoValue /\ out.op = "calculateMetrics") =>
        returned.overtimeHours = out.value.overtimeHours

\* the stored assignments filed under an employee or a project in an index
Indexed(index, key) == { assignments[i] : i \in { j \in Filed(index, key) : Has(assignments, j) } }

\* the sum of the hours of a set of stored assignments, in units
HoursOf(asgs) ==
    SumOver({ a.id : a \in asgs }, [i \in { a.id : a \in asgs } |-> assignments[i].hours])

\* min(100, 100 * totalHours / (maxHours * max(1, periods))), 0 when maxHours is 0
UtilizationOver(employee, totalHours, periods) ==
    IF employee.maxHours = 0 THEN FracInt(0)
    ELSE FracMin(FracInt(100), Frac(100 * totalHours, employee.maxHours * Max(1, periods)))

\* C26 (per-employee utilization): after getMetrics() the cached utilization of
\* every employee of the employee map is min(100, 100 * totalHours / (maxHours *
\* max(1, number of distinct periods among the employee's indexed assignments))),
\* a period being the date, or the week label when there is no date; it is 0
\* when maxHours is 0 and never more than 100.
C26_EmployeeUtilization ==
    (initialized /\ returned # NoValue) =>
        \A id \in DOMAIN employees :
            LET mine == Indexed(assignmentsByEmployee, id)
            IN /\ Has(cache.utilizationByEmployee, id)
               /\ FracLeq(cache.utilizationByEmployee[id], FracInt(100))
               /\ cache.utilizationByEmployee[id]
                    = UtilizationOver(employees[id], HoursOf(mine),
                                      Cardinality({ PeriodKey(a) : a \in mine }))

\* the fractional weight of a skill for an employee, in tenths: Expert 1.0,
\* Intermediate 0.7, Beginner 0.4, absent 0
FractionalWeight10(skills, skill) ==
    IF skill \notin DOMAIN skills THEN 0
    ELSE CASE skills[skill] = "Expert" -> 10
           [] skills[skill] = "Intermediate" -> 7
           [] skills[skill] = "Beginner" -> 4

\* the sum over the required skills of the fractional weights of the employee
\* reference, in tenths; a reference that is no employee of the map has no skill
WeightSum10(ref, project) ==
    LET skills == IF Has(employees, ref) THEN employees[ref].skills ELSE <<>>
    IN SumOver(DOMAIN project.requiredSkills,
               [k \in DOMAIN project.requiredSkills |->
                    FractionalWeight10(skills, project.requiredSkills[k])])

\* the per-project skills match as documented, from the index of the project
DocumentedSkillsMatch(id) ==
    LET project == projects[id]
        assigned == { a.employeeId : a \in Indexed(assignmentsByProject, id) }
        n == Len(project.requiredSkills)
    IN IF n = 0 THEN FracInt(100)
       ELSE IF Indexed(assignmentsByProject, id) = {} THEN FracInt(0)
       ELSE Frac(100 * SumOver(assigned, [e \in assigned |-> WeightSum10(e, project)]),
                 10 * n * Cardinality(assigned))

\* C27 (per-project skills match): after getMetrics() the cached value of a
\* project of the project map is 100 when it has no required skills, 0 when it
\* has required skills and no indexed assignment, and otherwise 100 times the
\* average over the distinct employee references of its indexed assignments of
\* (sum over the required skills of 1.0 / 0.7 / 0.4 / 0) / (number of required
\* skills).
C27_ProjectSkillsMatch ==
    (initialized /\ returned # NoValue) =>
        \A id \in DOMAIN projects :
            /\ Has(cache.skillsMatchByProject, id)
            /\ cache.skillsMatchByProject[id] = DocumentedSkillsMatch(id)

\* the sum of the cached overtime values, in units
CachedOvertime ==
    LET cells == UNION { { <<id, w>> : w \in DOMAIN cache.overtimeByEmployee[id] } :
                            id \in DOMAIN cache.overtimeByEmployee }
    IN SumOver(cells, [c \in cells |-> cache.overtimeByEmployee[c[1]][c[2]]])

\* the mean over the ids of the cached values, 0 when there is no id
MeanOver(ids, cached) ==
    IF ids = {} THEN FracInt(0)
    ELSE FracDivInt(FracSumOver(ids, [id \in ids |-> cached[id]]), Cardinality(ids))

\* C28 (aggregation): getMetrics() returns as overtimeHours the rounded sum of
\* the cached overtime values, as resourceUtilization the rounded mean of the
\* cached utilization over the employees of the dataset (0 when there are none),
\* and as skillsMatching the rounded mean of the cached skills match over the
\* projects of the dataset, a project with required skills and nobody assigned
\* counting 0 (0 when there are no projects).
C28_Aggregation ==
    (initialized /\ returned # NoValue) =>
        /\ returned.overtimeHours = MathRound(HoursFrac(CachedOvertime))
        /\ DOMAIN employees \subseteq DOMAIN cache.utilizationByEmployee
        /\ returned.resourceUtilization
              = MathRound(MeanOver(DOMAIN employees, cache.utilizationByEmployee))
        /\ DOMAIN projects \subseteq DOMAIN cache.skillsMatchByProject
        /\ returned.skillsMatching
              = MathRound(MeanOver(DOMAIN projects, cache.skillsMatchByProject))
        /\ \A id \in DOMAIN projects :
              (projects[id].requiredSkills # <<>> /\ Indexed(assignmentsByProject, id) = {})
                  => cache.skillsMatchByProject[id] = FracInt(0)

-----------------------------------------------------------------------------
(* Properties of the Incremental Metrics Cache: lookup failures, dirty tracking *)

\* an assignment whose employee reference is no employee of the map and whose
\* project reference is no project of the map
Dangling(a) == ~Has(employees, a.employeeId) /\ ~Has(projects, a.projectId)

\* what getMetrics() would return now, and what it would return after the step
MetricsNow ==
    getMetrics(cache, dirtyTracking, employees, projects, assignments,
               assignmentsByEmployee, assignmentsByProject).result
MetricsNext ==
    getMetrics(cache', dirtyTracking', employees', projects', assignments',
               assignmentsByEmployee', assignmentsByProject').result

\* a step that adds a new assignment, or updates or removes a stored one, whose
\* references are dangling before and after the step
DanglingStep ==
    /\ initialized
    /\ returned' = NoValue
    /\ \/ \E id \in DOMAIN assignments' \ DOMAIN assignments :
            Dangling(assignments'[id]) /\ AddAssignment(assignments'[id])
       \/ \E id \in DOMAIN assignments, u \in Updates :
            /\ Dangling(assignments[id])
            /\ Dangling(Spread(assignments[id], u))
            /\ UpdateAssignment(id, u)
       \/ \E id \in DOMAIN assignments :
            Dangling(assignments[id]) /\ RemoveAssignment(id)

\* C29 (lookup failures contribute nothing): adding, updating or removing an
\* assignment whose employee reference is not in the employee map and whose
\* project reference is not in the project map leaves the three values
\* getMetrics() returns equal to what they were before the operation.
C29_DanglingContributesNothing ==
    [][DanglingStep => MetricsNext = MetricsNow]_vars

\* the step is a getMetrics() call
GetMetricsStep == returned' # NoValue /\ GetMetrics

\* the cached values a recomputation of every employee and project of the maps
\* from the indices as they are would store
RecomputedFromIndices ==
    calculateAll(EmptyCache(TRUE), employees, projects, assignments,
                 assignmentsByEmployee, assignmentsByProject)

\* the step is an add, or an update or remove of a stored assignment
StoredMutationStep ==
    \/ \E a \in Assignments(AssignmentIds) : AddAssignment(a)
    \/ \E id \in DOMAIN assignments, u \in Updates : UpdateAssignment(id, u)
    \/ \E id \in DOMAIN assignments : RemoveAssignment(id)

\* C30 (a read clears the dirty tracking): when getMetrics() returns, the dirty
\* employee and project sets are empty, the cache is clean, and every employee
\* and project of the maps that was dirty before the call has the cached values
\* its own index slice gives; a clean cache stays clean through every call that
\* is not an add, or an update or remove of a stored assignment.
C30_ReadClearsDirtyTracking ==
    [][/\ GetMetricsStep =>
            /\ dirtyTracking'.dirtyEmployees = {}
            /\ dirtyTracking'.dirtyProjects = {}
            /\ ~cache'.isDirty
            /\ \A id \in dirtyTracking.dirtyEmployees \cap DOMAIN employees :
                  /\ Has(cache'.overtimeByEmployee, id)
                  /\ cache'.overtimeByEmployee[id] = RecomputedFromIndices.overtimeByEmployee[id]
                  /\ Has(cache'.utilizationByEmployee, id)
                  /\ cache'.utilizationByEmployee[id]
                        = RecomputedFromIndices.utilizationByEmployee[id]
            /\ \A id \in dirtyTracking.dirtyProjects \cap DOMAIN projects :
                  /\ Has(cache'.skillsMatchByProject, id)
                  /\ cache'.skillsMatchByProject[id]
                        = RecomputedFromIndices.skillsMatchByProject[id]
       /\ (~cache.isDirty /\ cache'.isDirty) => StoredMutationStep]_vars

\* C30 witness: getMetrics() has returned on a clean cache with empty dirty sets
\* that holds an assignment added after initialize(), between an employee and a
\* project of the maps whose cached values count it
C30_Witness ==
    /\ initialized
    /\ returned # NoValue
    /\ ~cache.isDirty
    /\ dirtyTracking.dirtyEmployees = {} /\ dirtyTracking.dirtyProjects = {}
    /\ Has(assignments, "a2")
    /\ Has(employees, assignments["a2"].employeeId)
    /\ Has(projects, assignments["a2"].projectId)
    /\ projects[assignments["a2"].projectId].requiredSkills # <<>>
    /\ FracLt(FracInt(0), cache.utilizationByEmployee[assignments["a2"].employeeId])
    /\ FracLt(FracInt(0), cache.skillsMatchByProject[assignments["a2"].projectId])

\* C31 (unknown ids are a no-op): removeAssignment(id) and updateAssignment(id,
\* changes) with an id that is not stored leave the assignment map, both
\* indices, the result cache, the dirty sets and the dirty flag unchanged.
C31_UnknownIdNoOp ==
    [][\A id \in AssignmentIds \ DOMAIN assignments :
          (RemoveAssignment(id) \/ \E u \in Updates : UpdateAssignment(id, u)) =>
              /\ assignments' = assignments
              /\ assignmentsByEmployee' = assignmentsByEmployee
              /\ assignmentsByProject' = assignmentsByProject
              /\ cache' = cache
              /\ dirtyTracking' = dirtyTracking]_vars

\* C31 witness: a2 was added and read, and the call after the read was neither
\* a read nor an initialize and left the cache clean: a removeAssignment or
\* updateAssignment of the id a1, which is not stored
C31_Witness ==
    /\ DOMAIN assignments = {"a2"}
    /\ ~cache.isDirty
    /\ returned = NoValue
    /\ DOMAIN cache.skillsMatchByProject # {}

\* C32 (the overtime cache keeps only positive entries): in every state every
\* (employee, period) entry of overtimeByEmployee is greater than 0, and every
\* employee key of overtimeByEmployee is an employee of the employee map.
C32_OnlyPositiveOvertime ==
    /\ \A id \in DOMAIN cache.overtimeByEmployee :
          \A w \in DOMAIN cache.overtimeByEmployee[id] : cache.overtimeByEmployee[id][w] > 0
    /\ DOMAIN cache.overtimeByEmployee \subseteq DOMAIN employees

\* C32 witness: after a read, one employee has a week with overtime and another
\* employee of the map has assignments and no entry, being within maxHours
C32_Witness ==
    /\ returned # NoValue
    /\ \E id \in DOMAIN cache.overtimeByEmployee : DOMAIN cache.overtimeByEmployee[id] # {}
    /\ \E id \in DOMAIN cache.overtimeByEmployee :
          /\ cache.overtimeByEmployee[id] = <<>>
          /\ Indexed(assignmentsByEmployee, id) # {}

-----------------------------------------------------------------------------
(* Properties of the Optimizer: double booking, progress, slots, groups *)

\* C33 (no employee twice in a project-period group): no suggestion for a
\* placeholder of project P in period W names an employee who holds a concrete
\* (non-placeholder) assignment to P in W in the input.
C33_NoDoubleBooking ==
    opt.pc = "done" =>
        \A k \in DOMAIN result.suggestions :
            \A i \in DOMAIN data.assignments \ PlaceholderPositions :
                SameProjectPeriod(data.assignments[i], opt.replaced[k])
                    => data.assignments[i].employeeId # result.suggestions[k].suggestedEmployeeId

\* the values reported while placeholders are processed: 10, then
\* 10 + 80 * k / total for the k-th placeholder processed
ProcessingReports(values) ==
    LET total == Cardinality(PlaceholderPositions)
    IN /\ Len(values) >= 1
       /\ Len(values) <= total + 1
       /\ values[1] = FracInt(10)
       /\ \A k \in 1..(Len(values) - 1) :
             /\ values[k + 1] = FracAdd(FracInt(10), Frac(80 * k, total))
             /\ FracLeq(FracInt(10), values[k + 1])
             /\ FracLeq(values[k + 1], FracInt(90))
             /\ FracLeq(values[k], values[k + 1])

\* C34 (progress callbacks are ordered): with at least one placeholder the
\* values handed to onProgress are non-decreasing, start at 10, are
\* 10 + 80 * processed / total (within 10..90) while placeholders are processed,
\* and end with 100, reported before the result is returned; without any
\* placeholder onProgress is never called.
C34_ProgressOrdered ==
    /\ opt.pc = "start" => opt.progress = <<>>
    /\ PlaceholderPositions = {} => opt.progress = <<>>
    /\ opt.pc = "loop" => (ProcessingReports(opt.progress) /\ result = NoResult)
    /\ (opt.pc = "done" /\ PlaceholderPositions # {}) =>
          /\ Len(opt.progress) >= 2
          /\ opt.progress[Len(opt.progress)] = FracInt(100)
          /\ ProcessingReports(SubSeq(opt.progress, 1, Len(opt.progress) - 1))

\* C34 witness: a finished run of two placeholders, one of them in a group whose
\* project is unknown, that reported 10, 50 and 100
C34_Witness ==
    /\ opt.pc = "done"
    /\ Cardinality(PlaceholderPositions) = 2
    /\ opt.progress = <<FracInt(10), FracInt(50), FracInt(100)>>

(* Properties of the Incremental Metrics Calculator: the reverse indices *)

\* the keys of an index whose set holds the id
KeysHolding(index, id) == { k \in DOMAIN index : id \in index[k] }

\* C35 (index consistency): after any sequence of initialize, addAssignment,
\* updateAssignment and removeAssignment, every stored assignment's id is in
\* exactly the employee-index set of its current employeeId and exactly the
\* project-index set of its current projectId, and no index set holds the id of
\* an assignment that is not stored.
C35_IndexConsistency ==
    /\ \A id \in DOMAIN assignments :
          /\ KeysHolding(assignmentsByEmployee, id) = {assignments[id].employeeId}
          /\ KeysHolding(assignmentsByProject, id) = {assignments[id].projectId}
    /\ \A k \in DOMAIN assignmentsByEmployee :
          assignmentsByEmployee[k] \subseteq DOMAIN assignments
    /\ \A k \in DOMAIN assignmentsByProject :
          assignmentsByProject[k] \subseteq DOMAIN assignments

(* Properties of the Optimizer: the slots of the predicted list *)

\* the sum of the hours of a list of assignments, in units
TotalHours(asgs) == SumOver(DOMAIN asgs, [i \in DOMAIN asgs |-> asgs[i].hours])

\* the placeholders of the input that the predicted list no longer holds
DroppedPlaceholders ==
    Cardinality(PlaceholderPositions)
        - Len(SelectSeq(SubSeq(PredictedAssignments, 1,
                               Len(PredictedAssignments) - Len(result.suggestions)),
                        LAMBDA a : PlaceholderRef(a.employeeId)))

\* C36 (slot conservation): the predicted list has as many assignments and as
\* many hours in total as the input list, and as many placeholders are dropped
\* as suggestions are appended.
C36_SlotConservation ==
    opt.pc = "done" =>
        /\ Len(PredictedAssignments) = Len(data.assignments)
        /\ TotalHours(PredictedAssignments) = TotalHours(data.assignments)
        /\ DroppedPlaceholders = Len(result.suggestions)

(* Properties of the Optimizer: groups are resolved independently *)

\* the employees suggested for the placeholders of one group from placeholder i
\* on, when the group is resolved on its own from the input dataset: used holds
\* the employees suggested for the placeholders before i
RECURSIVE GroupAlone(_, _, _)
GroupAlone(placeholders, i, used) ==
    IF i > Len(placeholders) THEN <<>>
    ELSE LET project == MapById(data.projects)[placeholders[1].projectId]
             best == findBestEmployee(placeholders[i], project, data, weights,
                                      opt.algorithm, used)
         IN IF best = <<>>
            THEN GroupAlone(placeholders, i + 1, used)
            ELSE <<best[1].id>> \o GroupAlone(placeholders, i + 1, used \cup {best[1].id})

\* the positions of the suggestions made for the placeholders of the group key
SuggestionsForKey(key) == { k \in DOMAIN result.suggestions : groupKey(opt.replaced[k]) = key }

\* the employees the run suggested for the group key, in the order of the
\* suggestions
RECURSIVE SuggestedForKey(_, _)
SuggestedForKey(key, k) ==
    IF k > Len(result.suggestions) THEN <<>>
    ELSE (IF k \in SuggestionsForKey(key)
          THEN <<result.suggestions[k].suggestedEmployeeId>> ELSE <<>>)
            \o SuggestedForKey(key, k + 1)

\* the groups of the placeholders of the input
InputGroups == placeholderGroups(SelectSeq(data.assignments, isPlaceholder))

-----------------------------------------------------------------------------
(* The schedule store next to the shared calculator.  The state of the store
   is the dataset data; its actions forward to the calculator when the store
   holds more than the threshold of assignments *)

\* the threshold of the store, `assignments.length > 500`, scaled down
CacheThreshold == 1

\* the most assignments the store holds
MaxStoreAssignments == 3

StoreAssignmentIds == { "a" \o ToString(i) : i \in 1..MaxStoreAssignments }

\* the assignments handed to the store, but for their ids
StoreShapes ==
    { Assignment("", e, p, 1, "w2", "d1") : e \in {"e1", "e2"}, p \in ProjectRefs }

\* the lists of at most MaxStoreAssignments assignments, with ids a1, a2, ...
StoreAssignmentLists ==
    UNION { { [i \in 1..n |-> [f[i] EXCEPT !.id = "a" \o ToString(i)]] :
                f \in [1..n -> StoreShapes] } : n \in 0..MaxStoreAssignments }

\* the datasets handed to loadData()
StoreData ==
    [employees : { <<E1, E2>> }, projects : { <<P1, P2>> },
     assignments : StoreAssignmentLists, dateRange : { NoRange }]

\* the updates handed to the store's updateAssignment()
StoreUpdates ==
    { ("hours" :> MaxAssignHours), ("employeeId" :> "e2"), ("projectId" :> "p2") }

\* the calculator's part that removeAssignment() touches, as one value
CalculatorState ==
    [assignments |-> assignments, assignmentsByEmployee |-> assignmentsByEmployee,
     assignmentsByProject |-> assignmentsByProject, cache |-> cache,
     dirtyTracking |-> dirtyTracking]

\* removeAssignmentFromMetrics(id): removeAssignment() of the shared calculator,
\* as a function of the calculator's state
removeAssignmentFromMetrics(s, assignmentId) ==
    IF ~Has(s.assignments, assignmentId) THEN s
    ELSE LET assignment == s.assignments[assignmentId]
         IN [assignments |-> Delete(s.assignments, assignmentId),
             assignmentsByEmployee |->
                DeleteFromIndex(s.assignmentsByEmployee, assignment.employeeId, assignmentId),
             assignmentsByProject |->
                DeleteFromIndex(s.assignmentsByProject, assignment.projectId, assignmentId),
             cache |-> [s.cache EXCEPT !.isDirty = TRUE],
             dirtyTracking |->
                [dirtyEmployees |-> s.dirtyTracking.dirtyEmployees \cup {assignment.employeeId},
                 dirtyProjects |-> s.dirtyTracking.dirtyProjects \cup {assignment.projectId},
                 dirtyWeeks |-> s.dirtyTracking.dirtyWeeks \cup {WeekOf(assignment)}]]

\* state.assignments.filter(...).forEach(a => removeAssignmentFromMetrics(a.id))
\* from assignment i on
RECURSIVE removeEach(_, _, _)
removeEach(asgs, i, s) ==
    IF i > Len(asgs) THEN s
    ELSE removeEach(asgs, i + 1, removeAssignmentFromMetrics(s, asgs[i].id))

\* the store and the calculator, none of them called yet
StoreInit ==
    /\ CalcInit
    /\ OptimizerIdle
    /\ data = NoData
    /\ out = NoOut

\* every action of the store is one call
StoreCall ==
    /\ calls < MaxCalls
    /\ calls' = calls + 1
    /\ UNCHANGED <<out, optVars>>

CalculatorUntouched ==
    UNCHANGED <<employees, projects, assignments, assignmentsByEmployee,
                assignmentsByProject, cache, dirtyTracking, initialized, returned, reads>>

\* loadData(data)
LoadData(d) ==
    /\ IF Len(d.assignments) > CacheThreshold
       THEN Initialize(d.employees, d.projects, d.assignments)
       ELSE CalculatorUntouched
    /\ data' = [d EXCEPT !.dateRange = NoRange]

\* the store's addAssignment(assignment)
StoreAddAssignment(assignment) ==
    /\ IF Len(data.assignments) > CacheThreshold
       THEN AddAssignment(assignment)
       ELSE CalculatorUntouched
    /\ data' = [data EXCEPT !.assignments = Append(@, assignment)]

\* the store's updateAssignment(id, data)
StoreUpdateAssignment(id, updates) ==
    /\ IF Len(data.assignments) > CacheThreshold
       THEN UpdateAssignment(id, updates)
       ELSE CalculatorUntouched
    /\ data' = [data EXCEPT !.assignments =
                    [i \in DOMAIN @ |-> IF @[i].id = id THEN Spread(@[i], updates) ELSE @[i]]]

\* the store's removeAssignment(id)
StoreRemoveAssignment(id) ==
    /\ IF Len(data.assignments) > CacheThreshold
       THEN RemoveAssignment(id)
       ELSE CalculatorUntouched
    /\ data' = [data EXCEPT !.assignments = SelectSeq(@, LAMBDA a : a.id # id)]

\* deleteProject(id).  The projects of the model have no name, and no
\* assignment refers to a project by its name.
DeleteProject(id) ==
    LET removed == SelectSeq(data.assignments, LAMBDA a : a.projectId = id)
        s == removeEach(removed, 1, CalculatorState)
    IN /\ data' = [data EXCEPT !.projects = SelectSeq(@, LAMBDA p : p.id # id),
                               !.assignments = SelectSeq(@, LAMBDA a : a.projectId # id)]
       /\ IF Len(data.assignments) > CacheThreshold /\ removed # <<>>
          THEN /\ assignments' = s.assignments
               /\ assignmentsByEmployee' = s.assignmentsByEmployee
               /\ assignmentsByProject' = s.assignmentsByProject
               /\ cache' = s.cache
               /\ dirtyTracking' = s.dirtyTracking
               /\ returned' = NoValue
               /\ reads' = 0
               /\ UNCHANGED <<employees, projects, initialized>>
          ELSE CalculatorUntouched

\* updateProject(id, data) with an update that holds at most an end date: the
\* week difference is 0.  endsBeforeDates tells whether the update moves the end
\* of the project before the date 'd1', the one date of the model's
\* assignments; such an update sets the hours of the dated assignments of the
\* project to 0.  The projects of the model have no field the update changes.
UpdateProject(id, endsBeforeDates) ==
    /\ CalculatorUntouched
    /\ data' =
        IF endsBeforeDates /\ \E i \in DOMAIN data.projects : data.projects[i].id = id
        THEN [data EXCEPT !.assignments =
                [i \in DOMAIN @ |->
                    IF @[i].projectId = id /\ @[i].date # ""
                    THEN [@[i] EXCEPT !.hours = 0] ELSE @[i]]]
        ELSE data

StoreNext ==
    \/ \E d \in StoreData : StoreCall /\ LoadData(d)
    \/ \E a \in StoreShapes, id \in StoreAssignmentIds :
            /\ Len(data.assignments) < MaxStoreAssignments
            /\ \A i \in DOMAIN data.assignments : data.assignments[i].id # id
            /\ StoreCall
            /\ StoreAddAssignment([a EXCEPT !.id = id])
    \/ \E id \in StoreAssignmentIds, u \in StoreUpdates :
            StoreCall /\ StoreUpdateAssignment(id, u)
    \/ \E id \in StoreAssignmentIds : StoreCall /\ StoreRemoveAssignment(id)
    \/ \E id \in ProjectRefs : StoreCall /\ DeleteProject(id)
    \/ \E id \in ProjectRefs, endsBeforeDates \in BOOLEAN :
            StoreCall /\ UpdateProject(id, endsBeforeDates)

StoreSpec == StoreInit /\ [][StoreNext]_vars

-----------------------------------------------------------------------------
(* Properties of the store next to the calculator *)

\* C38 (store and cache stay in step): after any interleaving of loadData,
\* addAssignment, updateAssignment, removeAssignment, deleteProject and
\* updateProject, whenever the store holds more assignments than the threshold,
\* the assignments held by the shared calculator (id, employee, project, hours,
\* period) are those of the store's list.
C38_StoreAndCacheInStep ==
    Len(data.assignments) > CacheThreshold =>
        { assignments[id] : id \in DOMAIN assignments } = ElementsOf(data.assignments)

====
